---- MODULE Spec2Model ----
(***************************************************************************)
(* A model of the e-ink "now playing" display pipeline.                    *)
(*                                                                         *)
(*   QSpec : src/models.py EvictingQueue, with several producer threads    *)
(*           and one consumer thread, at the grain of the critical         *)
(*           sections of threading.Condition.                              *)
(***************************************************************************)
EXTENDS Integers, Sequences, FiniteSets, TLC

(***************************************************************************)
(* Bounds of the model                                                     *)
(***************************************************************************)
\* largest capacity an EvictingQueue is constructed with in QSpec
MaxCap == 3
\* the poll interval SpotifyWorker is constructed with in TickSpec
PollInterval == 1
\* number of put calls explored in QSpec
MaxPuts == 5
\* the clock runs from 0 to MaxTime
MaxTime == 2
\* at most MaxCommands commands wait in the command queue in TickSpec
MaxCommands == 1
\* at most MaxPending commands wait in the command queue in CmdSpec
MaxPending == 2
\* the provider reports between 0 and MaxRemaining time units left to play
MaxRemaining == 2
MaxTextLen == 6
MaxWidth == 12
MaxRuns == 2
MaxGets == 4
ThemeCacheLimit == 2

(***************************************************************************)
(* State                                                                   *)
(***************************************************************************)
VARIABLES
    maxlen,     \* EvictingQueue.deque.maxlen
    deque,      \* EvictingQueue.deque, oldest item first
    lock,       \* owner of EvictingQueue.cond's lock, or "free"
    notified,   \* the consumer's waiter lock has been released by notify()
    prodPc,     \* position of each producer thread inside put
    prodItem,   \* the item each producer is putting, 0 outside put
    consPc,     \* position of the consumer thread inside get
    consTimeout,\* the consumer's timeout argument: TRUE = a number, FALSE = None
    consResult, \* outcome of the consumer's last completed get
    putLog,     \* history: items in the order their put appended them
    gotLog,     \* history: items in the order get returned them
    lastPut,    \* history: the deque before and after the last append
    stayedEmpty \* history: no put has appended since the current wait began

qvars == <<maxlen, deque, lock, notified, prodPc, prodItem, consPc, consTimeout,
           consResult, putLog, gotLog, lastPut, stayedEmpty>>


VARIABLES
    env,              \* the environment of the run: the snapshots the provider can
                      \* report (catalogue), the remaining play times it can report
                      \* (remainings), the commands the buttons can send (buttons),
                      \* and the last instant of the clock (horizon)
    poll_interval,    \* SpotifyWorker.poll_interval
    now,              \* time.monotonic()
    shutdown_event,   \* the threading.Event shared by the workers
    command_queue,    \* queue.Queue of Commands
    processing_queue, \* EvictingQueue of ImageTasks
    rendering_queue,  \* EvictingQueue of RenderTasks
    state,            \* SpotifyWorker.state: <<>> is None, <<s>> a PlaybackState
    next_fetch_time,  \* SpotifyWorker._next_fetch_time
    orchPc,           \* position of the SpotifyWorker thread
    tick,             \* history: what the running or last SpotifyWorker._tick did
    images,           \* ImageProcessor.images, an OrderedDict: <<[key, image], ...>>, oldest first
    procPc,           \* position of the ImageProcessor thread
    uses,             \* history: the keys of images, the least recently requested first
    current_track_id, \* DisplayWorker.current_track_id
    dispPc,           \* position of the DisplayWorker thread
    dtick             \* history: what the last DisplayWorker._tick did

envvars == <<env, poll_interval, now, shutdown_event, command_queue>>
orchvars == <<state, next_fetch_time, orchPc, tick>>
procvars == <<images, procPc, uses>>
dispvars == <<current_track_id, dispPc, dtick>>
pvars == <<envvars, processing_queue, rendering_queue, orchvars, procvars, dispvars>>

VARIABLES
    trunc,            \* one call of truncate_text: its arguments, locals and result
    colour,           \* the calls of get_theme_colour on one image: the locals of the
                      \* running call and the colours returned so far
    themes,           \* ThemeColours: its cache and the history of its get calls
    cmp,              \* one comparison a == b of two PlaybackStates and its result
    ctxcall           \* one call of _get_playback_context: self.state, the
                      \* currently_playing response, and what the call gave

fvars == <<trunc, colour, themes, cmp, ctxcall>>

vars == <<qvars, pvars, fvars>>

Producers == {"p1", "p2"}
Consumer == "c"

(***************************************************************************)
(* collections.deque(maxlen=n)                                             *)
(***************************************************************************)
\* a deque that forgets to discard when full
DequeAppendNoEvict(d, n, x) == Append(d, x)

\* a deque that refuses the new item when full
DequeAppendDropNew(d, n, x) == IF Len(d) >= n THEN d ELSE Append(d, x)

\* a deque that discards the newest retained item instead of the oldest
DequeAppendDropNewest(d, n, x) ==
    IF n = 0 THEN d
    ELSE IF Len(d) >= n THEN Append(SubSeq(d, 1, Len(d) - 1), x)
    ELSE Append(d, x)

\* deque.append on a bounded deque: once full, the item at the left end is
\* discarded as the new one is added at the right end
DequeAppend(d, n, x) ==
    IF n = 0 THEN d
    ELSE IF Len(d) >= n THEN Append(Tail(d), x)
    ELSE Append(d, x)

\* a popleft that takes from the right end
DequePopRight(d) == [item |-> d[Len(d)], rest |-> SubSeq(d, 1, Len(d) - 1)]

\* deque.popleft, for a non-empty deque
DequePopleft(d) == [item |-> Head(d), rest |-> Tail(d)]

(***************************************************************************)
(* EvictingQueue.put, thread p                                             *)
(***************************************************************************)
\* number of put calls made so far
PutCalls == Len(putLog) + Cardinality({q \in Producers : prodPc[q] # "idle"})

\* put(item) called by thread p; items are numbered by call
PutCall(p) ==
    /\ prodPc[p] = "idle"
    /\ PutCalls < MaxPuts
    /\ prodPc' = [prodPc EXCEPT ![p] = "entering"]
    /\ prodItem' = [prodItem EXCEPT ![p] = PutCalls + 1]
    /\ UNCHANGED <<maxlen, deque, lock, notified, consPc, consTimeout, consResult,
                   putLog, gotLog, lastPut, stayedEmpty>>
    /\ UNCHANGED <<pvars, fvars>>

\* `with self.cond:` entered
PutEnter(p) ==
    /\ prodPc[p] = "entering"
    /\ lock = "free"
    /\ lock' = p
    /\ prodPc' = [prodPc EXCEPT ![p] = "locked"]
    /\ UNCHANGED <<maxlen, deque, notified, prodItem, consPc, consTimeout, consResult,
                   putLog, gotLog, lastPut, stayedEmpty>>
    /\ UNCHANGED <<pvars, fvars>>

\* self.deque.append(item); self.cond.notify(); the lock is released on exit
PutAppend(p) ==
    /\ prodPc[p] = "locked"
    /\ lock = p
    /\ deque' = DequeAppend(deque, maxlen, prodItem[p])
    /\ notified' = IF consPc = "waiting" THEN TRUE ELSE notified
    /\ lock' = "free"
    /\ prodPc' = [prodPc EXCEPT ![p] = "idle"]
    /\ putLog' = Append(putLog, prodItem[p])
    /\ lastPut' = [before |-> deque, item |-> prodItem[p], after |-> deque']
    /\ stayedEmpty' = FALSE
    /\ prodItem' = [prodItem EXCEPT ![p] = 0]
    /\ UNCHANGED <<maxlen, consPc, consTimeout, consResult, gotLog>>
    /\ UNCHANGED <<pvars, fvars>>

(***************************************************************************)
(* EvictingQueue.get, the consumer thread                                  *)
(***************************************************************************)
\* the loop head `while not self.deque`, executed holding the lock: return
\* popleft() and leave the `with` block, or call self.cond.wait(timeout),
\* which releases the lock
GetLoopHead ==
    IF deque # <<>>
    THEN /\ deque' = DequePopleft(deque).rest
         /\ gotLog' = Append(gotLog, DequePopleft(deque).item)
         /\ consResult' = "item"
         /\ consPc' = "idle"
         /\ lock' = "free"
         /\ UNCHANGED <<notified, stayedEmpty>>
    ELSE /\ consPc' = "waiting"
         /\ notified' = FALSE
         /\ stayedEmpty' = TRUE
         /\ lock' = "free"
         /\ UNCHANGED <<deque, gotLog, consResult>>

\* get(timeout) called: `with self.cond:` entered
GetEnter(t) ==
    /\ consPc = "idle"
    /\ lock = "free"
    /\ lock' = Consumer
    /\ consPc' = "check"
    /\ consTimeout' = t
    /\ consResult' = "none"
    /\ UNCHANGED <<maxlen, deque, notified, prodPc, prodItem, putLog, gotLog,
                   lastPut, stayedEmpty>>
    /\ UNCHANGED <<pvars, fvars>>

GetCheck ==
    /\ consPc = "check"
    /\ lock = Consumer
    /\ GetLoopHead
    /\ UNCHANGED <<pvars, fvars>>
    /\ UNCHANGED <<maxlen, prodPc, prodItem, consTimeout, putLog, lastPut>>

\* Condition.wait: the waiter lock was released by a notify, wait will return True
GetNotified ==
    /\ consPc = "waiting"
    /\ notified
    /\ consPc' = "woken"
    /\ UNCHANGED <<maxlen, deque, lock, notified, prodPc, prodItem, consTimeout,
                   consResult, putLog, gotLog, lastPut, stayedEmpty>>
    /\ UNCHANGED <<pvars, fvars>>

\* Condition.wait: the timeout elapsed with no notify, wait will return False
GetTimeout ==
    /\ consPc = "waiting"
    /\ consTimeout
    /\ ~notified
    /\ consPc' = "timedout"
    /\ UNCHANGED <<maxlen, deque, lock, notified, prodPc, prodItem, consTimeout,
                   consResult, putLog, gotLog, lastPut, stayedEmpty>>
    /\ UNCHANGED <<pvars, fvars>>

\* a get that polls again after a timeout instead of raising
GetAfterWaitNoRaise ==
    /\ consPc \in {"woken", "timedout"}
    /\ lock = "free"
    /\ consPc' = "check"
    /\ lock' = Consumer
    /\ UNCHANGED <<maxlen, deque, notified, prodPc, prodItem, consTimeout,
                   consResult, putLog, gotLog, lastPut, stayedEmpty>>
    /\ UNCHANGED <<pvars, fvars>>

\* Condition.wait re-acquires the lock and returns; `if not wait_success:
\* raise TimeoutError` leaves the `with` block, otherwise the loop goes round
GetAfterWait ==
    /\ consPc \in {"woken", "timedout"}
    /\ lock = "free"
    /\ IF consPc = "timedout"
       THEN /\ consResult' = "Timeout"
            /\ consPc' = "idle"
            /\ UNCHANGED lock
       ELSE /\ consPc' = "check"
            /\ lock' = Consumer
            /\ UNCHANGED consResult
    /\ UNCHANGED <<maxlen, deque, notified, prodPc, prodItem, consTimeout,
                   putLog, gotLog, lastPut, stayedEmpty>>
    /\ UNCHANGED <<pvars, fvars>>

(***************************************************************************)
(* The pipeline: SpotifyWorker -> processing_queue -> ImageProcessor ->    *)
(* rendering_queue -> DisplayWorker                                        *)
(***************************************************************************)
\* an optional value: <<>> is None, <<x>> is x
None == <<>>
Some(x) == <<x>>

Commands == {"NEXT", "PREVIOUS", "SAVE", "TOGGLE"}

Min(a, b) == IF a <= b THEN a ELSE b
Max(a, b) == IF a >= b THEN a ELSE b

(***************************************************************************)
(* PlaybackState                                                           *)
(***************************************************************************)
\* an equality that also compares the predicted end time, as the
\* dataclass-generated one would
PlaybackStateEqStructural(a, b) == a = b

\* PlaybackState.__eq__(self, other) for two PlaybackStates; a track is
\* its id, an absent component is <<>>
PlaybackStateEq(a, b) ==
    LET now_playing_equal ==
            IF a.now_playing # None /\ b.now_playing # None
            THEN a.now_playing = b.now_playing ELSE FALSE
        next_up_equal ==
            IF a.next_up # None /\ b.next_up # None
            THEN a.next_up = b.next_up ELSE FALSE
        context_equal ==
            IF a.context # None /\ b.context # None
            THEN a.context[1].uri = b.context[1].uri ELSE FALSE
    IN  now_playing_equal /\ next_up_equal /\ context_equal

\* `state != self.state` in _tick, either side possibly None: None != None
\* is False; None against a PlaybackState falls back to the reflected
\* __ne__, which negates __eq__, and __eq__ returns False for a
\* non-PlaybackState
StateNe(cand, stored) ==
    IF cand = None /\ stored = None THEN FALSE
    ELSE IF cand = None \/ stored = None THEN TRUE
    ELSE ~PlaybackStateEq(cand[1], stored[1])

(***************************************************************************)
(* SpotifyWorker._get_playback_context                                     *)
(***************************************************************************)
\* str.endswith('recommended'), a URI being the tuple of its ':' segments
EndsWithRecommended(uri) == uri # <<>> /\ uri[Len(uri)] = "recommended"

\* a resolution that never reuses the stored context
GetPlaybackContextNoReuse(st, cp) ==
    IF cp.context = None
    THEN [exc |-> "AttributeError", value |-> None, calls |-> <<>>]
    ELSE LET context == cp.context[1]
             context_uri == context.uri
             playing_from == context.type
             made(type, title) ==
                 Some([uri |-> context_uri, type |-> type, title |-> title])
         IN  IF EndsWithRecommended(context_uri)
             THEN [exc |-> "", value |-> made("recommended", <<>>), calls |-> <<>>]
             ELSE IF playing_from = "playlist"
             THEN [exc |-> "", value |-> made("playlist", <<"name of", context_uri>>),
                   calls |-> << <<"playlist", context_uri>> >>]
             ELSE IF playing_from = "artist"
             THEN [exc |-> "", value |-> made("artist", <<"artist of", cp.item>>),
                   calls |-> <<>>]
             ELSE IF playing_from = "album"
             THEN [exc |-> "", value |-> made("album", <<"album of", cp.item>>),
                   calls |-> <<>>]
             ELSE [exc |-> "", value |-> made(playing_from, <<>>), calls |-> <<>>]

\* a resolution in which the "recommended" suffix counts for playlists only
GetPlaybackContextPlaylistSuffix(st, cp) ==
    IF cp.context = None
    THEN [exc |-> "AttributeError", value |-> None, calls |-> <<>>]
    ELSE LET context == cp.context[1]
             context_uri == context.uri
             playing_from == context.type
             made(type, title) ==
                 Some([uri |-> context_uri, type |-> type, title |-> title])
         IN  IF st # None /\ context_uri = st[1].context[1].uri
             THEN [exc |-> "", value |-> st[1].context, calls |-> <<>>]
             ELSE IF playing_from = "playlist" /\ EndsWithRecommended(context_uri)
             THEN [exc |-> "", value |-> made("recommended", <<>>), calls |-> <<>>]
             ELSE IF playing_from = "playlist"
             THEN [exc |-> "", value |-> made("playlist", <<"name of", context_uri>>),
                   calls |-> << <<"playlist", context_uri>> >>]
             ELSE IF playing_from = "artist"
             THEN [exc |-> "", value |-> made("artist", <<"artist of", cp.item>>),
                   calls |-> <<>>]
             ELSE IF playing_from = "album"
             THEN [exc |-> "", value |-> made("album", <<"album of", cp.item>>),
                   calls |-> <<>>]
             ELSE [exc |-> "", value |-> made(playing_from, <<>>), calls |-> <<>>]

\* st is self.state, cp the currently_playing response. The result is the
\* SpotifyContext, the provider calls made, and the exception raised if any.
GetPlaybackContext(st, cp) ==
    IF cp.context = None
    THEN \* context.get('uri') on None
         [exc |-> "AttributeError", value |-> None, calls |-> <<>>]
    ELSE LET context == cp.context[1]
             context_uri == context.uri
             playing_from == context.type
             made(type, title) ==
                 Some([uri |-> context_uri, type |-> type, title |-> title])
         IN  IF st # None /\ context_uri = st[1].context[1].uri
             THEN [exc |-> "", value |-> st[1].context, calls |-> <<>>]
             ELSE IF EndsWithRecommended(context_uri)
             THEN [exc |-> "", value |-> made("recommended", <<>>), calls |-> <<>>]
             ELSE IF playing_from = "playlist"
             THEN [exc |-> "", value |-> made("playlist", <<"name of", context_uri>>),
                   calls |-> << <<"playlist", context_uri>> >>]
             ELSE IF playing_from = "artist"
             THEN [exc |-> "", value |-> made("artist", <<"artist of", cp.item>>),
                   calls |-> <<>>]
             ELSE IF playing_from = "album"
             THEN [exc |-> "", value |-> made("album", <<"album of", cp.item>>),
                   calls |-> <<>>]
             ELSE [exc |-> "", value |-> made(playing_from, <<>>), calls |-> <<>>]

\* no call of _get_playback_context made
CtxIdle == [pc |-> "idle", st |-> None, cp |-> None, out |-> None]

\* _get_playback_context(cp) about to run with st as self.state
CtxEntry(st, cp) == [pc |-> "call", st |-> st, cp |-> Some(cp), out |-> None]

\* the call of _get_playback_context, to its return or its exception
ContextCall ==
    /\ ctxcall.pc = "call"
    /\ ctxcall' = [ctxcall EXCEPT !.pc = "done",
                                  !.out = Some(GetPlaybackContext(ctxcall.st, ctxcall.cp[1]))]
    /\ UNCHANGED <<qvars, pvars, trunc, colour, themes, cmp>>

(***************************************************************************)
(* SpotifyWorker._get_playback_state                                       *)
(***************************************************************************)
\* st is self.state; p1 is what currently_playing() returns and p2 what the
\* later queue() call reflects (the two may disagree); remaining is
\* duration_ms - progress_ms in time units; t is time.monotonic()
GetPlaybackState(st, p1, p2, remaining, t) ==
    IF p1 = None
    THEN [exc |-> "", value |-> None, calls |-> << <<"currently_playing">> >>]
    ELSE IF p2 = None
    THEN [exc |-> "", value |-> None,
          calls |-> << <<"currently_playing">>, <<"queue">> >>]
    ELSE IF p2[1].queue = <<>>
    THEN \* play_queue['queue'][0] on an empty list
         [exc |-> "IndexError", value |-> None,
          calls |-> << <<"currently_playing">>, <<"queue">> >>]
    ELSE LET ctx == GetPlaybackContext(st, p1[1])
         IN  [exc |-> ctx.exc,
              calls |-> << <<"currently_playing">>, <<"queue">> >> \o ctx.calls,
              value |-> IF ctx.exc # "" THEN None
                        ELSE Some([now_playing |-> Some(p2[1].item),
                                   next_up |-> Some(p2[1].queue[1]),
                                   context |-> ctx.value,
                                   now_playing_end_time |-> t + remaining])]

(***************************************************************************)
(* SpotifyWorker._handle_command                                           *)
(***************************************************************************)
\* a handler in which SAVE and TOGGLE ask for a refresh as well
HandleCommandAlwaysRefresh(st, command, toggle) ==
    IF command = "NEXT"
    THEN [exc |-> "", refresh_required |-> TRUE, calls |-> << <<"next_track">> >>]
    ELSE IF command = "PREVIOUS"
    THEN [exc |-> "", refresh_required |-> TRUE, calls |-> << <<"previous_track">> >>]
    ELSE IF command = "SAVE"
    THEN [exc |-> "", refresh_required |-> TRUE, calls |-> <<>>]
    ELSE [exc |-> "", refresh_required |-> TRUE,
          calls |-> << <<"currently_playing">> >>]

\* a handler in which NEXT and PREVIOUS do not ask for a refresh
HandleCommandNoRefresh(st, command, toggle) ==
    IF command = "NEXT"
    THEN [exc |-> "", refresh_required |-> FALSE, calls |-> << <<"next_track">> >>]
    ELSE IF command = "PREVIOUS"
    THEN [exc |-> "", refresh_required |-> FALSE, calls |-> << <<"previous_track">> >>]
    ELSE [exc |-> "", refresh_required |-> FALSE, calls |-> <<>>]

\* st is self.state; toggle is what currently_playing() tells the TOGGLE
\* branch: "none", "playing" or "paused"
HandleCommand(st, command, toggle) ==
    IF command = "NEXT"
    THEN [exc |-> "", refresh_required |-> TRUE, calls |-> << <<"next_track">> >>]
    ELSE IF command = "PREVIOUS"
    THEN [exc |-> "", refresh_required |-> TRUE, calls |-> << <<"previous_track">> >>]
    ELSE IF command = "SAVE"
    THEN IF st = None
         THEN \* self.state.now_playing on None
              [exc |-> "AttributeError", refresh_required |-> FALSE, calls |-> <<>>]
         ELSE [exc |-> "", refresh_required |-> FALSE,
               calls |-> << <<"current_user_saved_tracks_add", st[1].now_playing[1]>> >>]
    ELSE \* TOGGLE
         IF toggle = "none"
         THEN [exc |-> "", refresh_required |-> FALSE,
               calls |-> << <<"currently_playing">> >>]
         ELSE IF toggle = "playing"
         THEN [exc |-> "", refresh_required |-> FALSE,
               calls |-> << <<"currently_playing">>, <<"pause_playback">> >>]
         ELSE [exc |-> "", refresh_required |-> FALSE,
               calls |-> << <<"currently_playing">>, <<"start_playback">> >>]

(***************************************************************************)
(* SpotifyWorker._enqueue_processing_updates, _update_next_fetch_time      *)
(***************************************************************************)
ImageTask(track_state, track, context) ==
    [state |-> track_state, track |-> track, context |-> context]

\* a now-playing task that names the track queued next
NowPlayingTaskOfNextUp(st) == ImageTask("NOW_PLAYING", st.next_up, st.context)
\* st is self.state, a PlaybackState
NowPlayingTask(st) == ImageTask("NOW_PLAYING", st.now_playing, st.context)
NextUpTask(st) == ImageTask("NEXT_UP", st.next_up, st.context)

\* EvictingQueue.put as one critical section
QueuePut(q, n, item) == DequeAppend(q, n, item)

\* capacity of the processing queue and of the rendering queue
ProcessingQueueMaxlen == 2
RenderingQueueMaxlen == 1

\* float('inf') as track_end_time: min() then returns the other argument
UpdateNextFetchTime(st, t, interval) ==
    IF st = None THEN t + interval
    ELSE Min(st[1].now_playing_end_time, t + interval)

(***************************************************************************)
(* SpotifyWorker._tick                                                     *)
(***************************************************************************)
\* the history record of a tick that has not started: the command, the
\* provider calls made, the candidate state, how far the tick got, and the
\* method that raised, if any
TickIdle ==
    [cmd |-> None, calls |-> <<>>, refresh |-> FALSE, queried |-> FALSE,
     cand |-> None, compared |-> FALSE, raised_in |-> ""]

\* What _tick(command) does up to its first put, as a record: the history
\* of the tick, the new value of self.state, the task put, and where the
\* thread is afterwards. command is None or Some(c); toggle, p1, p2,
\* remaining are the provider's answers.
TickOutcome(command, toggle, p1, p2, remaining) ==
    LET hc == IF command = None
              THEN [exc |-> "", refresh_required |-> TRUE, calls |-> <<>>]
              ELSE HandleCommand(state, command[1], toggle)
        gs == GetPlaybackState(state, p1, p2, remaining, now)
        handled == [TickIdle EXCEPT !.cmd = command, !.calls = hc.calls,
                                    !.refresh = hc.refresh_required]
        queried == [handled EXCEPT !.calls = hc.calls \o gs.calls, !.queried = TRUE,
                                   !.cand = gs.value]
        compared == [queried EXCEPT !.compared = TRUE]
    IN  IF hc.exc # ""
        THEN [pc |-> "crashed", state |-> state, put |-> <<>>,
              tick |-> [handled EXCEPT !.raised_in = "_handle_command"]]
        ELSE IF ~hc.refresh_required
        THEN [pc |-> "loop", state |-> state, put |-> <<>>, tick |-> handled]
        ELSE IF gs.exc # ""
        THEN [pc |-> "crashed", state |-> state, put |-> <<>>,
              tick |-> [queried EXCEPT !.raised_in = "_get_playback_state"]]
        ELSE IF ~StateNe(gs.value, state)
        THEN [pc |-> "loop", state |-> state, put |-> <<>>, tick |-> compared]
        ELSE IF gs.value = None
        THEN \* self.state is None when _enqueue_processing_updates reads
             \* self.state.now_playing
             [pc |-> "crashed", state |-> None, put |-> <<>>,
              tick |-> [compared EXCEPT !.raised_in = "_enqueue_processing_updates"]]
        ELSE [pc |-> "put_next_up", state |-> gs.value,
              put |-> <<NowPlayingTask(gs.value[1])>>, tick |-> compared]

\* _tick(command), from its start to its return, its exception, or its
\* first put
Tick(command) ==
    \E toggle \in (IF command = Some("TOGGLE") THEN {"none", "playing", "paused"}
                   ELSE {"none"}),
       p1 \in env.catalogue, p2 \in env.catalogue, remaining \in env.remainings :
        LET out == TickOutcome(command, toggle, p1, p2, remaining)
        IN  /\ tick' = out.tick
            /\ state' = out.state
            /\ orchPc' = out.pc
            /\ processing_queue' =
                 IF out.put = <<>> THEN processing_queue
                 ELSE QueuePut(processing_queue, ProcessingQueueMaxlen, out.put[1])
            /\ next_fetch_time' =
                 IF out.pc = "loop" /\ out.tick.compared
                 THEN UpdateNextFetchTime(state, now, poll_interval)
                 ELSE next_fetch_time

(***************************************************************************)
(* SpotifyWorker.run                                                       *)
(***************************************************************************)
\* `while not self.shutdown_event.is_set()`
OrchLoop ==
    /\ orchPc = "loop"
    /\ orchPc' = IF shutdown_event THEN "stopped" ELSE "get"
    /\ tick' = TickIdle
    /\ UNCHANGED <<state, next_fetch_time>>
    /\ UNCHANGED <<fvars, qvars, envvars, processing_queue, rendering_queue, procvars, dispvars>>

\* a get that takes every waiting command and handles the first of them
OrchCommandDrain ==
    /\ orchPc = "get"
    /\ command_queue # <<>>
    /\ command_queue' = <<>>
    /\ Tick(Some(Head(command_queue)))
    /\ UNCHANGED <<env, poll_interval, now, shutdown_event>>
    /\ UNCHANGED <<fvars, qvars, rendering_queue, procvars, dispvars>>

\* command_queue.get(timeout) returns a command; _tick(command)
OrchCommand ==
    /\ orchPc = "get"
    /\ command_queue # <<>>
    /\ command_queue' = Tail(command_queue)
    /\ Tick(Some(Head(command_queue)))
    /\ UNCHANGED <<env, poll_interval, now, shutdown_event>>
    /\ UNCHANGED <<fvars, qvars, rendering_queue, procvars, dispvars>>

\* command_queue.get(timeout) raises Empty at the next fetch time; _tick(None)
OrchTimeout ==
    /\ orchPc = "get"
    /\ command_queue = <<>>
    /\ now >= next_fetch_time
    /\ Tick(None)
    /\ UNCHANGED <<fvars, qvars, envvars, rendering_queue, procvars, dispvars>>

\* the second put of _enqueue_processing_updates, then
\* _update_next_fetch_time, and _tick returns
OrchPutNextUp ==
    /\ orchPc = "put_next_up"
    /\ processing_queue' =
         QueuePut(processing_queue, ProcessingQueueMaxlen, NextUpTask(state[1]))
    /\ UNCHANGED tick
    /\ next_fetch_time' = UpdateNextFetchTime(state, now, poll_interval)
    /\ orchPc' = "loop"
    /\ UNCHANGED state
    /\ UNCHANGED <<fvars, qvars, envvars, rendering_queue, procvars, dispvars>>

(***************************************************************************)
(* The environment: the clock, the buttons, the shutdown signal            *)
(***************************************************************************)
Advance ==
    /\ now < env.horizon
    /\ now' = now + 1
    /\ UNCHANGED <<env, poll_interval, shutdown_event, command_queue>>
    /\ UNCHANGED <<fvars, qvars, processing_queue, rendering_queue, orchvars, procvars, dispvars>>

ButtonPress(c) ==
    /\ c \in env.buttons
    /\ Len(command_queue) < env.pending
    /\ command_queue' = Append(command_queue, c)
    /\ UNCHANGED <<env, poll_interval, now, shutdown_event>>
    /\ UNCHANGED <<fvars, qvars, processing_queue, rendering_queue, orchvars, procvars, dispvars>>

Shutdown ==
    /\ ~shutdown_event
    /\ shutdown_event' = TRUE
    /\ UNCHANGED <<env, poll_interval, now, command_queue>>
    /\ UNCHANGED <<fvars, qvars, processing_queue, rendering_queue, orchvars, procvars, dispvars>>

(***************************************************************************)
(* ImageProcessor                                                          *)
(***************************************************************************)
\* the number of images ImageProcessor._ensure_image keeps
ImagesLimit == 2

\* ImageProcessor._get_cache_key: f'{track.id},{context.uri}'
GetCacheKey(track, context) == <<track[1], context[1].uri>>

Keys(imgs) == {imgs[i].key : i \in 1..Len(imgs)}

\* Canvas.generate_image: the image is what was drawn on it
GenerateImage(track, context) ==
    [track |-> track[1], playing_from |-> context[1].type,
     playing_from_title |-> context[1].title]

\* an _ensure_image that never discards
EnsureImageNoEvict(imgs, track, context) ==
    IF GetCacheKey(track, context) \in Keys(imgs) THEN imgs
    ELSE Append(imgs, [key |-> GetCacheKey(track, context),
                       image |-> GenerateImage(track, context)])

\* an _ensure_image that draws the image anew for a key it already holds
EnsureImageAlwaysRender(imgs, track, context) ==
    LET cache_id == GetCacheKey(track, context)
        drawn == [key |-> cache_id, image |-> GenerateImage(track, context)]
    IN  IF cache_id \in Keys(imgs)
        THEN [i \in 1..Len(imgs) |-> IF imgs[i].key = cache_id THEN drawn ELSE imgs[i]]
        ELSE LET added == Append(imgs, drawn)
             IN  IF Len(added) > ImagesLimit THEN Tail(added) ELSE added

\* an _ensure_image that discards from the end, popitem(last=True)
EnsureImageEvictNewest(imgs, track, context) ==
    LET cache_id == GetCacheKey(track, context)
    IN  IF cache_id \in Keys(imgs) THEN imgs
        ELSE LET added == Append(imgs, [key |-> cache_id,
                                        image |-> GenerateImage(track, context)])
             IN  IF Len(added) > ImagesLimit
                 THEN SubSeq(added, 1, Len(added) - 1)
                 ELSE added

\* ImageProcessor._ensure_image: render and insert an absent key at the
\* end, then discard from the front once more than ImagesLimit are held
EnsureImage(imgs, track, context) ==
    LET cache_id == GetCacheKey(track, context)
    IN  IF cache_id \in Keys(imgs) THEN imgs
        ELSE LET added == Append(imgs, [key |-> cache_id,
                                        image |-> GenerateImage(track, context)])
             IN  IF Len(added) > ImagesLimit THEN Tail(added) ELSE added

\* a read that leaves the entry in place
ImagesPeek(imgs, cache_id) ==
    LET i == CHOOSE k \in 1..Len(imgs) : imgs[k].key = cache_id
    IN  [image |-> imgs[i].image, rest |-> imgs]

\* OrderedDict.pop(key): the value and the remaining entries
ImagesPop(imgs, cache_id) ==
    LET i == CHOOSE k \in 1..Len(imgs) : imgs[k].key = cache_id
    IN  [image |-> imgs[i].image,
         rest |-> SubSeq(imgs, 1, i - 1) \o SubSeq(imgs, i + 1, Len(imgs))]

RenderTask(track_id, image) == [track_id |-> track_id, image |-> image]

\* a loop test that never sees the event
LoopTestIgnoresEvent == "get"

\* `while not self.stop_event.is_set()`: the thread goes on to
\* get(timeout=1), or leaves the loop
LoopTest == IF shutdown_event THEN "stopped" ELSE "get"

\* The first loop test of run. Every later one is taken in the same step as
\* the pass before it: the test reads nothing but the shutdown event, and
\* the end of a pass writes nothing another thread reads.
ProcLoop ==
    /\ procPc = "loop"
    /\ procPc' = LoopTest
    /\ UNCHANGED <<images, uses, rendering_queue, processing_queue>>
    /\ UNCHANGED <<fvars, qvars, envvars, orchvars, dispvars>>

\* processing_queue.get(timeout=1) raises TimeoutError: continue
ProcTimeout ==
    /\ procPc = "get"
    /\ processing_queue = <<>>
    /\ procPc' = LoopTest
    /\ UNCHANGED <<images, uses, rendering_queue, processing_queue>>
    /\ UNCHANGED <<fvars, qvars, envvars, orchvars, dispvars>>

\* a pass that puts a RenderTask whatever the state of the task is
ProcOutcomeEmitAlways(imgs, task, fetched) ==
    LET cache_id == GetCacheKey(task.track, task.context)
        ensured == EnsureImage(imgs, task.track, task.context)
    IN  IF cache_id \notin Keys(imgs) /\ ~fetched
        THEN [exc |-> "RequestException", images |-> imgs, put |-> <<>>]
        ELSE [exc |-> "", images |-> ImagesPop(ensured, cache_id).rest,
              put |-> <<RenderTask(task.track[1], ImagesPop(ensured, cache_id).image)>>]

\* What one pass of run does with the task it got: the new images, the
\* RenderTask put (if any), and the exception raised (if any). fetched tells
\* whether generate_image, which fetches the album art, succeeds.
ProcOutcome(imgs, task, fetched) ==
    LET cache_id == GetCacheKey(task.track, task.context)
        ensured == EnsureImage(imgs, task.track, task.context)
    IN  IF cache_id \notin Keys(imgs) /\ ~fetched
        THEN [exc |-> "RequestException", images |-> imgs, put |-> <<>>]
        ELSE IF task.state # "NOW_PLAYING"
        THEN [exc |-> "", images |-> ensured, put |-> <<>>]
        ELSE IF cache_id \notin Keys(ensured)
        THEN [exc |-> "KeyError", images |-> ensured, put |-> <<>>]
        ELSE [exc |-> "", images |-> ImagesPop(ensured, cache_id).rest,
              put |-> <<RenderTask(task.track[1], ImagesPop(ensured, cache_id).image)>>]

\* the keys still held after a pass that handled task, the requested key
\* moved to the most recent end
UsesAfter(u, task, imgs) ==
    LET cache_id == GetCacheKey(task.track, task.context)
        others == SelectSeq(u, LAMBDA k : k # cache_id)
    IN  SelectSeq(Append(others, cache_id), LAMBDA k : k \in Keys(imgs))

\* processing_queue.get(timeout=1) returns a task, which is handled
ProcTask ==
    /\ procPc = "get"
    /\ processing_queue # <<>>
    /\ processing_queue' = DequePopleft(processing_queue).rest
    /\ \E fetched \in BOOLEAN :
         LET out == ProcOutcome(images, DequePopleft(processing_queue).item, fetched)
         IN  /\ images' = out.images
             /\ rendering_queue' =
                  IF out.put = <<>> THEN rendering_queue
                  ELSE QueuePut(rendering_queue, RenderingQueueMaxlen, out.put[1])
             /\ procPc' = IF out.exc # "" THEN "crashed" ELSE LoopTest
             /\ uses' = IF out.exc # "" THEN uses
                        ELSE UsesAfter(uses, DequePopleft(processing_queue).item, out.images)
    /\ UNCHANGED <<fvars, qvars, envvars, orchvars, dispvars>>

(***************************************************************************)
(* DisplayWorker                                                           *)
(***************************************************************************)
\* the calls the last DisplayWorker._tick made on the display
DTickIdle == <<>>

\* the first loop test of run; every later one is taken in the same step
\* as the pass before it
DispLoop ==
    /\ dispPc = "loop"
    /\ dispPc' = LoopTest
    /\ dtick' = DTickIdle
    /\ UNCHANGED <<current_track_id, rendering_queue>>
    /\ UNCHANGED <<fvars, qvars, envvars, processing_queue, orchvars, procvars>>

\* rendering_queue.get(timeout=1) raises TimeoutError: continue
DispTimeout ==
    /\ dispPc = "get"
    /\ rendering_queue = <<>>
    /\ dispPc' = LoopTest
    /\ dtick' = DTickIdle
    /\ UNCHANGED <<current_track_id, rendering_queue>>
    /\ UNCHANGED <<fvars, qvars, envvars, processing_queue, orchvars, procvars>>

\* a pass that shows every task it gets
DispTaskAlwaysShow ==
    /\ dispPc = "get"
    /\ rendering_queue # <<>>
    /\ rendering_queue' = DequePopleft(rendering_queue).rest
    /\ current_track_id' = Some(DequePopleft(rendering_queue).item.track_id)
    /\ dtick' = <<"set_image", "show">>
    /\ dispPc' = LoopTest
    /\ UNCHANGED <<fvars, qvars, envvars, processing_queue, orchvars, procvars>>

\* rendering_queue.get(timeout=1) returns a task; DisplayWorker._tick(task)
DispTask ==
    /\ dispPc = "get"
    /\ rendering_queue # <<>>
    /\ LET got == DequePopleft(rendering_queue)
           task == got.item
       IN  /\ rendering_queue' = got.rest
           /\ IF Some(task.track_id) # current_track_id
              THEN /\ current_track_id' = Some(task.track_id)
                   /\ dtick' = <<"set_image", "show">>
              ELSE /\ dtick' = <<>>
                   /\ UNCHANGED current_track_id
    /\ dispPc' = LoopTest
    /\ UNCHANGED <<fvars, qvars, envvars, processing_queue, orchvars, procvars>>

(***************************************************************************)
(* truncate_text (canvas/text_ops.py). A text is a sequence of characters, *)
(* a font gives every character a width, and the measured width of a text  *)
(* is the sum of the widths of its characters.                             *)
(***************************************************************************)
Alphabet == {"i", "m"}
Ellipsis == <<".", ".", ".">>

\* the font: draw.textlength of one character
CharWidth(c) == IF c = "m" THEN 2 ELSE 1

\* draw.textlength(text, font)
RECURSIVE TextLength(_)
TextLength(text) ==
    IF text = <<>> THEN 0 ELSE CharWidth(Head(text)) + TextLength(Tail(text))

\* text[:k], k of either sign
SliceTo(text, k) ==
    IF k >= 0
    THEN SubSeq(text, 1, Min(k, Len(text)))
    ELSE SubSeq(text, 1, Max(Len(text) + k, 0))

\* int(len(text) * (max_width / text_length)) - 4, for text_length > max_width >= 0.
\* The quotient is a float: where the exact product is a whole number the
\* rounded one may fall just below it, and int() then gives one less.
CharactersToKeep(text, max_width) ==
    LET exact == Len(text) * max_width
        floor == exact \div TextLength(text)
    IN  IF exact % TextLength(text) = 0
        THEN {floor - 4, floor - 5}
        ELSE {floor - 4}

\* no call of truncate_text in progress
TruncIdle ==
    [pc |-> "idle", text |-> <<>>, max_width |-> 0, truncated_text |-> <<>>,
     result |-> None]

\* a call of truncate_text about to run
TruncEntry(text, max_width) ==
    [pc |-> "call", text |-> text, max_width |-> max_width,
     truncated_text |-> <<>>, result |-> None]

\* truncate_text up to its loop: the text that fits is returned as it is,
\* any other is cut to the estimated number of characters
TruncCall ==
    /\ trunc.pc = "call"
    /\ IF TextLength(trunc.text) <= trunc.max_width
       THEN trunc' = [trunc EXCEPT !.pc = "done", !.result = Some(trunc.text)]
       ELSE \E characters_to_keep \in CharactersToKeep(trunc.text, trunc.max_width) :
              trunc' = [trunc EXCEPT !.pc = "loop",
                                     !.truncated_text =
                                         SliceTo(trunc.text, characters_to_keep)]
    /\ UNCHANGED <<qvars, pvars, colour, themes, cmp, ctxcall>>

\* the loop of a mutant: the estimate is returned without being measured
TruncLoopUnmeasured ==
    /\ trunc.pc = "loop"
    /\ trunc' = [trunc EXCEPT !.pc = "done",
                              !.result = Some(trunc.truncated_text \o Ellipsis)]
    /\ UNCHANGED <<qvars, pvars, colour, themes, cmp, ctxcall>>

\* the loop of a mutant: its body leaves truncated_text as it is
TruncLoopNoDrop ==
    /\ trunc.pc = "loop"
    /\ IF TextLength(trunc.truncated_text \o Ellipsis) > trunc.max_width
       THEN trunc' = [trunc EXCEPT !.truncated_text = SliceTo(trunc.truncated_text,
                                                              Len(trunc.truncated_text))]
       ELSE trunc' = [trunc EXCEPT !.pc = "done",
                                   !.result = Some(trunc.truncated_text \o Ellipsis)]
    /\ UNCHANGED <<qvars, pvars, colour, themes, cmp, ctxcall>>

\* one test of the while loop, then its body or the return
TruncLoop ==
    /\ trunc.pc = "loop"
    /\ IF TextLength(trunc.truncated_text \o Ellipsis) > trunc.max_width
       THEN trunc' = [trunc EXCEPT !.truncated_text = SliceTo(trunc.truncated_text, -1)]
       ELSE trunc' = [trunc EXCEPT !.pc = "done",
                                   !.result = Some(trunc.truncated_text \o Ellipsis)]
    /\ UNCHANGED <<qvars, pvars, colour, themes, cmp, ctxcall>>

(***************************************************************************)
(* The theme colour (canvas/image_ops.py). A float is a whole number of    *)
(* 1/Scale units; every product and every root is rounded to the nearest   *)
(* unit, and no intermediate value leaves 32 bits.                         *)
(***************************************************************************)
Scale == 100000

\* a * b of two floats, a split at its thousands
Mul(a, b) == ((a \div 1000) * b * 10 + ((a % 1000) * b) \div 100 + 500) \div 1000

\* t ** 3
Cube(t) == Mul(Mul(t, t), t)

\* the largest y in lo..hi with y ** 3 <= x
RECURSIVE CbrtIn(_, _, _)
CbrtIn(x, lo, hi) ==
    IF lo >= hi THEN lo
    ELSE LET mid == (lo + hi + 1) \div 2
         IN  IF Cube(mid) <= x THEN CbrtIn(x, mid, hi) ELSE CbrtIn(x, lo, mid - 1)

\* x ** (1 / 3), 0 <= x < 8
Cbrt(x) ==
    LET y == CbrtIn(x, 0, 2 * Scale)
    IN  IF y < 2 * Scale /\ Cube(y + 1) - x < x - Cube(y) THEN y + 1 ELSE y

\* y ** 5
Pow5(y) == Mul(Mul(Mul(y, y), Mul(y, y)), y)

\* the largest y in lo..hi with y ** 5 <= x
RECURSIVE Root5In(_, _, _)
Root5In(x, lo, hi) ==
    IF lo >= hi THEN lo
    ELSE LET mid == (lo + hi + 1) \div 2
         IN  IF Pow5(mid) <= x THEN Root5In(x, mid, hi) ELSE Root5In(x, lo, mid - 1)

\* x ** (1 / 5), 0 <= x < 32
Root5(x) ==
    LET y == Root5In(x, 0, 2 * Scale)
    IN  IF y < 2 * Scale /\ Pow5(y + 1) - x < x - Pow5(y) THEN y + 1 ELSE y

\* x ** 2.4, as x ** 2 * (x ** 2) ** (1 / 5)
Pow24(x) == Mul(Mul(x, x), Root5(Mul(x, x)))

\* the largest y in lo..hi with y ** 2.4 <= c
RECURSIVE InvPow24In(_, _, _)
InvPow24In(c, lo, hi) ==
    IF lo >= hi THEN lo
    ELSE LET mid == (lo + hi + 1) \div 2
         IN  IF Pow24(mid) <= c THEN InvPow24In(c, mid, hi) ELSE InvPow24In(c, lo, mid - 1)

\* c ** (1 / 2.4), 0 <= c < 5
InvPow24(c) ==
    LET y == InvPow24In(c, 0, 2 * Scale)
    IN  IF y < 2 * Scale /\ Pow24(y + 1) - c < c - Pow24(y) THEN y + 1 ELSE y

\* the largest y in lo..hi with y * y <= n
RECURSIVE SqrtIn(_, _, _)
SqrtIn(n, lo, hi) ==
    IF lo >= hi THEN lo
    ELSE LET mid == (lo + hi + 1) \div 2
         IN  IF mid * mid <= n THEN SqrtIn(n, mid, hi) ELSE SqrtIn(n, lo, mid - 1)

\* inverse sRGB gamma of one channel, c in [0, 1]
SrgbToLinear(c) ==
    IF c > 4045 THEN Pow24(Mul(c + 5500, 94787)) ELSE (c * 100) \div 1292

\* sRGB gamma of one channel
LinearToSrgb(c) ==
    IF c > 313 THEN Mul(105500, InvPow24(c)) - 5500 ELSE (c * 1292) \div 100

\* np.clip(c, 0, 1)
Clip01(c) == Min(Scale, Max(0, c))

\* rgb_pixels after the inverse gamma that rgb_to_lab applies in place
Linearised(p) == <<SrgbToLinear(p[1]), SrgbToLinear(p[2]), SrgbToLinear(p[3])>>

\* the forward branch of the Lab transfer function
LabF(t) == IF t > 885 THEN Cbrt(t) ELSE Mul(778700, t) + 13793

\* rgb_to_lab from the linearised pixel on
LinearToLab(p) ==
    LET x == LabF(Mul(Mul(41240, p[1]) + Mul(35760, p[2]) + Mul(18050, p[3]), 105211))
        y == LabF(Mul(21260, p[1]) + Mul(71520, p[2]) + Mul(7220, p[3]))
        z == LabF(Mul(Mul(1930, p[1]) + Mul(11920, p[2]) + Mul(95050, p[3]), 91842))
    IN  <<116 * y - 16 * Scale, 500 * (x - y), 200 * (y - z)>>

\* rgb_to_lab of one pixel
RgbToLab(p) == LinearToLab(Linearised(p))

\* the inverse branch of the Lab transfer function
LabFInv(t) == IF t > 20689 THEN Cube(t) ELSE Mul(t - 13793, 12842)

\* lab_to_rgb of one pixel, clipped
LabToRgb(lab) ==
    LET fy == (lab[1] + 16 * Scale) \div 116
        x == Mul(LabFInv(lab[2] \div 500 + fy), 95047)
        y == LabFInv(fy)
        z == Mul(LabFInv(fy - lab[3] \div 200), 108883)
    IN  <<Clip01(LinearToSrgb(Mul(324060, x) - Mul(153720, y) - Mul(49860, z))),
          Clip01(LinearToSrgb(Mul(187580, y) - Mul(96890, x) + Mul(4150, z))),
          Clip01(LinearToSrgb(Mul(5570, x) - Mul(20400, y) + Mul(105700, z)))>>

\* the relative luminance of contrast_ratio_with_white
RelativeLuminance(rgb) ==
    Mul(21260, SrgbToLinear(rgb[1])) + Mul(71520, SrgbToLinear(rgb[2]))
        + Mul(7220, SrgbToLinear(rgb[3]))

\* contrast_ratio_with_white, in units of 1/10000
ContrastRatioWithWhite(rgb) == 1050000000 \div (RelativeLuminance(rgb) + 5000)

\* min_contrast = 3.0 in the units of ContrastRatioWithWhite
MinContrast == 30000

\* (rgb01 * 255.0 + 0.5).astype(np.int32)
Rgb255(rgb01) == [i \in 1..3 |-> (rgb01[i] * 255 + Scale \div 2) \div Scale]

\* an 8-bit triple as floats in [0, 1]
Rgb01(rgb255) == [i \in 1..3 |-> (rgb255[i] * Scale) \div 255]

(***************************************************************************)
(* Images: a few pixels each, so that the thumbnail keeps every pixel and  *)
(* the clustering has one centre per distinct colour                       *)
(***************************************************************************)
White == <<255, 255, 255>>
Grey == <<154, 154, 154>>
NearBlack == <<5, 5, 5>>
Yellow == <<255, 255, 0>>
Red == <<255, 0, 0>>
Dark == <<8, 8, 8>>

\* an image is the sequence of its pixels
Images ==
    {<<>>, <<White>>, <<Grey>>, <<NearBlack>>, <<Yellow>>, <<Red>>,
     <<NearBlack, NearBlack, White>>, <<White, Grey, Grey>>, <<Grey, NearBlack>>,
     <<Yellow, Grey, Grey>>, <<Red, Yellow, Yellow>>, <<NearBlack, Red>>,
     <<White, Yellow>>, <<White, White, Grey>>, <<NearBlack, NearBlack, Dark>>}

\* np.asarray(img).reshape(-1, 3).astype(np.float32) / 255.0
RgbPixels(image) == [i \in 1..Len(image) |-> Rgb01(image[i])]

\* the distinct values of s, in the order of their first appearance
RECURSIVE Distinct(_)
Distinct(s) ==
    IF s = <<>> THEN <<>>
    ELSE LET d == Distinct(SubSeq(s, 1, Len(s) - 1))
         IN  IF \E i \in 1..Len(d) : d[i] = s[Len(s)] THEN d ELSE Append(d, s[Len(s)])

NClusters == 8

\* k = max(1, min(n_clusters, unique_count)), counted on the linearised pixels
ClusterCount(linear_pixels) == Max(1, Min(NClusters, Len(Distinct(linear_pixels))))

\* KMeans(n_clusters=k, random_state=42, n_init=10) on at most n_clusters
\* distinct pixels: every distinct pixel is the centre of a cluster of its
\* own. The order of the labels is fixed by the seed; it is taken to be the
\* order of first appearance.
KMeansCentres(lab_pixels) ==
    LET d == Distinct(lab_pixels)
    IN  [j \in 1..Len(d) |->
            [centre |-> d[j],
             count |-> Cardinality({i \in 1..Len(lab_pixels) : lab_pixels[i] = d[j]})]]

\* sqrt(a * a + b * b) of a Lab colour, in units of 1/100
Chroma(lab) ==
    LET a == lab[2] \div 1000
        b == lab[3] \div 1000
    IN  SqrtIn(a * a + b * b, 0, 20000)

\* score_colour(lab, prevalence) with prevalence = count / total
ScoreColour(lab, count, total) ==
    LET lightness == lab[1]
        lightness_penalty ==
            IF lightness > 85 * Scale
            THEN Max(25000, (100 * Scale - lightness) \div 15)
            ELSE IF lightness < 20 * Scale
                 THEN Max(10000, lightness \div 20)
                 ELSE Scale
        chroma_weight == Min(150000, Max(5000, Chroma(lab) * 25))
        prevalence_weight == SqrtIn(((count * Scale) \div total) * 1000, 0, 10000) * 10
    IN  Mul(Mul(prevalence_weight, chroma_weight), lightness_penalty)

\* np.argmax: the first index of idx, a non-empty ascending sequence of
\* indices, at which f is largest
ArgMax(f, idx) ==
    idx[CHOOSE j \in 1..Len(idx) :
            /\ \A m \in 1..Len(idx) : f[idx[m]] <= f[idx[j]]
            /\ \A m \in 1..(j - 1) : f[idx[m]] < f[idx[j]]]

\* the indices 1..n at which the predicate holds, ascending
RECURSIVE Where(_, _)
Where(mask, n) ==
    IF n = 0 THEN <<>>
    ELSE IF mask[n] THEN Append(Where(mask, n - 1), n) ELSE Where(mask, n - 1)

\* a choice without the override for colourless images
BestLabScoredOnly(centres) ==
    LET n == Len(centres)
        all == [j \in 1..n |-> j]
        total == LET RECURSIVE Sum(_)
                     Sum(j) == IF j = 0 THEN 0 ELSE centres[j].count + Sum(j - 1)
                 IN  Sum(n)
        scores == [j \in 1..n |-> ScoreColour(centres[j].centre, centres[j].count, total)]
    IN  centres[ArgMax(scores, all)].centre

\* the centre get_theme_colour settles on before the contrast step
BestLab(centres) ==
    LET n == Len(centres)
        all == [j \in 1..n |-> j]
        total == LET RECURSIVE Sum(_)
                     Sum(j) == IF j = 0 THEN 0 ELSE centres[j].count + Sum(j - 1)
                 IN  Sum(n)
        scores == [j \in 1..n |-> ScoreColour(centres[j].centre, centres[j].count, total)]
        chromas == [j \in 1..n |-> Chroma(centres[j].centre)]
        lightness == [j \in 1..n |-> centres[j].centre[1]]
        counts == [j \in 1..n |-> centres[j].count]
        visible == Where([j \in 1..n |-> lightness[j] > 15 * Scale], n)
    IN  IF chromas[ArgMax(chromas, all)] < 800
        THEN IF visible # <<>>
             THEN centres[ArgMax(counts, visible)].centre
             ELSE centres[ArgMax(lightness, all)].centre
        ELSE centres[ArgMax(scores, all)].centre

EnsureIterations == 200

\* a pass that lowers the luminance by 2.0
EnsurePassDoubleStep(lab) ==
    IF ContrastRatioWithWhite(LabToRgb(lab)) >= MinContrast
    THEN [exit |-> "return", lab |-> lab]
    ELSE LET luminance == Max(0, lab[1] - 2 * Scale)
         IN  [exit |-> IF luminance <= 0 THEN "break" ELSE "next",
              lab |-> <<luminance, lab[2], lab[3]>>]

\* one pass of the loop of ensure_white_text_contrast_lab on [luminance, a, b]:
\* "return" with the colour as it is, "break" at the floor, or "next"
EnsurePass(lab) ==
    IF ContrastRatioWithWhite(LabToRgb(lab)) >= MinContrast
    THEN [exit |-> "return", lab |-> lab]
    ELSE LET luminance == Max(0, lab[1] - Scale)
         IN  [exit |-> IF luminance <= 0 THEN "break" ELSE "next",
              lab |-> <<luminance, lab[2], lab[3]>>]

\* ensure_white_text_contrast_lab from its pass i on
RECURSIVE EnsureWhiteTextContrastLab(_, _)
EnsureWhiteTextContrastLab(lab, i) ==
    IF i = EnsureIterations THEN lab
    ELSE LET pass == EnsurePass(lab)
         IN  IF pass.exit = "next"
             THEN EnsureWhiteTextContrastLab(pass.lab, i + 1)
             ELSE pass.lab

\* get_theme_colour(image)
GetThemeColour(image) ==
    IF Len(image) = 0 THEN <<0, 0, 0>>
    ELSE LET rgb_pixels == RgbPixels(image)
             lab_pixels == [i \in 1..Len(image) |-> RgbToLab(rgb_pixels[i])]
         IN  Rgb255(LabToRgb(EnsureWhiteTextContrastLab(
                                 BestLab(KMeansCentres(lab_pixels)), 0)))

\* no call of get_theme_colour in progress, none made
ColourIdle ==
    [pc |-> "idle", image |-> <<>>, rgb_pixels |-> <<>>, centres |-> <<>>,
     best_lab |-> <<0, 0, 0>>, i |-> 0, results |-> <<>>]

\* a call of get_theme_colour about to run
ColourEntry(image) == [ColourIdle EXCEPT !.pc = "call", !.image = image]

\* a mutant: the pixel array of the previous call is used again if there is one
ExtractCallStale ==
    /\ colour.pc = "call"
    /\ LET rgb_pixels == IF colour.rgb_pixels # <<>> THEN colour.rgb_pixels
                         ELSE RgbPixels(colour.image)
       IN  IF Len(rgb_pixels) = 0
           THEN colour' = [colour EXCEPT !.pc = "done", !.rgb_pixels = rgb_pixels,
                                         !.results = Append(@, <<0, 0, 0>>)]
           ELSE colour' = [colour EXCEPT !.pc = "cluster", !.rgb_pixels = rgb_pixels]
    /\ UNCHANGED <<qvars, pvars, trunc, themes, cmp, ctxcall>>

\* get_theme_colour up to the test for an empty image
ExtractCall ==
    /\ colour.pc = "call"
    /\ LET rgb_pixels == RgbPixels(colour.image)
       IN  IF Len(rgb_pixels) = 0
           THEN colour' = [colour EXCEPT !.pc = "done", !.rgb_pixels = rgb_pixels,
                                         !.results = Append(@, <<0, 0, 0>>)]
           ELSE colour' = [colour EXCEPT !.pc = "cluster", !.rgb_pixels = rgb_pixels]
    /\ UNCHANGED <<qvars, pvars, trunc, themes, cmp, ctxcall>>

\* rgb_to_lab, which leaves rgb_pixels linearised, and the clustering
ExtractCluster ==
    /\ colour.pc = "cluster"
    /\ LET lab_pixels == [i \in 1..Len(colour.rgb_pixels) |-> RgbToLab(colour.rgb_pixels[i])]
           linear_pixels == [i \in 1..Len(colour.rgb_pixels) |->
                                Linearised(colour.rgb_pixels[i])]
       IN  /\ ClusterCount(linear_pixels) = Len(Distinct(lab_pixels))
           /\ colour' = [colour EXCEPT !.pc = "choose", !.rgb_pixels = linear_pixels,
                                       !.centres = KMeansCentres(lab_pixels)]
    /\ UNCHANGED <<qvars, pvars, trunc, themes, cmp, ctxcall>>

\* the scores and the choice of the centre
ExtractChoose ==
    /\ colour.pc = "choose"
    /\ colour' = [colour EXCEPT !.pc = "ensure", !.best_lab = BestLab(colour.centres),
                                !.i = 0]
    /\ UNCHANGED <<qvars, pvars, trunc, themes, cmp, ctxcall>>

\* one pass of the loop of ensure_white_text_contrast_lab, or its end
EnsureStep ==
    /\ colour.pc = "ensure"
    /\ IF colour.i = EnsureIterations
       THEN colour' = [colour EXCEPT !.pc = "return"]
       ELSE LET pass == EnsurePass(colour.best_lab)
            IN  IF pass.exit = "next"
                THEN colour' = [colour EXCEPT !.best_lab = pass.lab, !.i = @ + 1]
                ELSE colour' = [colour EXCEPT !.best_lab = pass.lab, !.pc = "return"]
    /\ UNCHANGED <<qvars, pvars, trunc, themes, cmp, ctxcall>>

\* the conversion to 8-bit RGB and the return
ExtractReturn ==
    /\ colour.pc = "return"
    /\ colour' = [colour EXCEPT !.pc = "done",
                                !.results = Append(@, Rgb255(LabToRgb(colour.best_lab)))]
    /\ UNCHANGED <<qvars, pvars, trunc, themes, cmp, ctxcall>>

\* the caller calls get_theme_colour again on the same image
ExtractAgain ==
    /\ colour.pc = "done"
    /\ Len(colour.results) < MaxRuns
    /\ colour' = [colour EXCEPT !.pc = "call"]
    /\ UNCHANGED <<qvars, pvars, trunc, themes, cmp, ctxcall>>

(***************************************************************************)
(* ThemeColours / ThemeCache: get_theme_colour memoized in a diskcache     *)
(* Cache with eviction_policy 'least-recently-used'. The cache is a        *)
(* sequence of [key, value], least recently used first; ThemeCacheLimit    *)
(* entries stand for its size_limit.                                       *)
(***************************************************************************)
ThumbSide == 64

\* image.resize((64, 64), Image.NEAREST) of an image one pixel high: every
\* row of the thumbnail is the same, and column j shows the pixel under its
\* centre
ThumbnailRow(image) ==
    [j \in 1..ThumbSide |-> image[((2 * j - 1) * Len(image)) \div (2 * ThumbSide) + 1]]

\* _hash_image: the digest of the thumbnail's bytes, taken to be injective
HashImage(image) == ThumbnailRow(image)

\* position of key in the cache, 0 if there is none
CacheIndex(cache, key) ==
    IF \E i \in 1..Len(cache) : cache[i].key = key
    THEN CHOOSE i \in 1..Len(cache) : cache[i].key = key
    ELSE 0

\* the cache without its entry at position i
CacheWithout(cache, i) == SubSeq(cache, 1, i - 1) \o SubSeq(cache, i + 1, Len(cache))

\* Cache.get(key) of a stored key: the value is read and the entry becomes
\* the most recently used
CacheTouch(cache, i) == Append(CacheWithout(cache, i), cache[i])

\* Cache[key] = value of a new key: the entry is stored and the least
\* recently used ones are culled while the cache is over its limit
CacheStore(cache, key, value) ==
    LET stored == Append(cache, [key |-> key, value |-> value])
    IN  SubSeq(stored, Max(1, Len(stored) - ThemeCacheLimit + 1), Len(stored))

\* no get made yet, cache empty
ThemesIdle == [cache |-> <<>>, calls |-> <<>>]

\* a mutant: the colour is computed and returned but not stored
ThemeGetNoStore(image) ==
    /\ Len(themes.calls) < MaxGets
    /\ LET theme_colour == GetThemeColour(image)
       IN  themes' = [themes EXCEPT
                        !.calls = Append(@, [image |-> image, hit |-> FALSE,
                                             colour |-> theme_colour,
                                             evicted |-> {}])]
    /\ UNCHANGED <<qvars, pvars, trunc, colour, cmp, ctxcall>>

\* ThemeColours.get(image)
ThemeGet(image) ==
    /\ Len(themes.calls) < MaxGets
    /\ LET hash == HashImage(image)
           i == CacheIndex(themes.cache, hash)
       IN  IF i # 0
           THEN themes' = [cache |-> CacheTouch(themes.cache, i),
                           calls |-> Append(themes.calls,
                                            [image |-> image, hit |-> TRUE,
                                             colour |-> themes.cache[i].value,
                                             evicted |-> {}])]
           ELSE LET theme_colour == GetThemeColour(image)
                    stored == CacheStore(themes.cache, hash, theme_colour)
                IN  themes' = [cache |-> stored,
                               calls |-> Append(themes.calls,
                                   [image |-> image, hit |-> FALSE,
                                    colour |-> theme_colour,
                                    evicted |-> {themes.cache[j].key :
                                                   j \in 1..Len(themes.cache)}
                                                \ {stored[j].key : j \in 1..Len(stored)}])]
    /\ UNCHANGED <<qvars, pvars, trunc, colour, cmp, ctxcall>>

\* no comparison made
CmpIdle == [pc |-> "idle", a |-> None, b |-> None, result |-> FALSE]

\* a == b about to be evaluated, a and b PlaybackStates
CmpEntry(a, b) == [pc |-> "call", a |-> Some(a), b |-> Some(b), result |-> FALSE]

\* PlaybackState.__eq__(a, b)
Compare ==
    /\ cmp.pc = "call"
    /\ cmp' = [cmp EXCEPT !.pc = "done", !.result = PlaybackStateEq(cmp.a[1], cmp.b[1])]
    /\ UNCHANGED <<qvars, pvars, trunc, colour, themes, ctxcall>>

\* no pure function is being evaluated
FunctionsIdle ==
    /\ trunc = TruncIdle
    /\ colour = ColourIdle
    /\ themes = ThemesIdle
    /\ cmp = CmpIdle
    /\ ctxcall = CtxIdle

(***************************************************************************)
(* Initial states                                                          *)
(***************************************************************************)
\* the queue of QSpec, just constructed, no thread inside it
QueueInit ==
    /\ deque = <<>>
    /\ lock = "free"
    /\ notified = FALSE
    /\ prodPc = [p \in Producers |-> "idle"]
    /\ prodItem = [p \in Producers |-> 0]
    /\ consPc = "idle"
    /\ consTimeout = FALSE
    /\ consResult = "none"
    /\ putLog = <<>>
    /\ gotLog = <<>>
    /\ lastPut = [before |-> <<>>, item |-> 0, after |-> <<>>]
    /\ stayedEmpty = FALSE

\* The workers just constructed and started in environment e.
\* SpotifyWorker.__init__ stores the playback state it finds and enqueues
\* nothing; a construction that raises starts no worker.
PipelineInit(e, interval) ==
    /\ env = e
    /\ poll_interval = interval
    /\ now = 0
    /\ shutdown_event = FALSE
    /\ command_queue = <<>>
    /\ processing_queue = <<>>
    /\ rendering_queue = <<>>
    /\ \E p1 \in e.catalogue, p2 \in e.catalogue, remaining \in e.remainings :
         LET gs == GetPlaybackState(None, p1, p2, remaining, 0)
         IN  /\ gs.exc = ""
             /\ state = gs.value
    /\ next_fetch_time = 0 + interval
    /\ orchPc = "loop"
    /\ tick = TickIdle
    /\ images = <<>>
    /\ uses = <<>>
    /\ procPc = "loop"
    /\ current_track_id = None
    /\ dispPc = "loop"
    /\ dtick = DTickIdle

(***************************************************************************)
(* QSpec: one EvictingQueue, Producers putting, Consumer getting           *)
(***************************************************************************)
QInit ==
    /\ maxlen \in 1..MaxCap
    /\ QueueInit
    /\ FunctionsIdle
    /\ PipelineInit([catalogue |-> {None}, remainings |-> {0}, buttons |-> {},
                     horizon |-> 0, pending |-> 0], 0)

QNext ==
    \/ \E p \in Producers : PutCall(p)
    \/ \E p \in Producers : PutEnter(p)
    \/ \E p \in Producers : PutAppend(p)
    \/ \E t \in BOOLEAN : GetEnter(t)
    \/ GetCheck
    \/ GetNotified
    \/ GetTimeout
    \/ GetAfterWait

QSpec == QInit /\ [][QNext]_vars

(***************************************************************************)
(* The provider's snapshots                                                *)
(***************************************************************************)
PlaylistContext == [uri |-> <<"spotify", "playlist", "p1">>, type |-> "playlist"]
AlbumContext == [uri |-> <<"spotify", "album", "a1">>, type |-> "album"]

\* a snapshot: the playing track, the upcoming queue, the context
Snapshot(item, queue, context) == [item |-> item, queue |-> queue, context |-> context]

\* snapshots with a context and a track queued after the playing one; any
\* two of them may differ in the playing track, the queued one, the context
PlayingSnapshots ==
    {Some(Snapshot("A", <<"B">>, Some(PlaylistContext))),
     Some(Snapshot("A", <<"B">>, Some(AlbumContext))),
     Some(Snapshot("B", <<"A">>, Some(PlaylistContext))),
     Some(Snapshot("A", <<"A">>, Some(PlaylistContext)))}

\* a playing track without context, a playing track with nothing queued
BareSnapshots ==
    {Some(Snapshot("A", <<"B">>, None)), Some(Snapshot("A", <<>>, Some(AlbumContext)))}

(***************************************************************************)
(* TickSpec: the SpotifyWorker thread, its clock, its commands             *)
(***************************************************************************)
TickInit ==
    /\ maxlen = 1
    /\ QueueInit
    /\ FunctionsIdle
    /\ PipelineInit([catalogue |-> PlayingSnapshots \cup BareSnapshots \cup {None},
                     remainings |-> 0..MaxRemaining, buttons |-> Commands,
                     horizon |-> MaxTime,
                     pending |-> MaxCommands], PollInterval)

TickNext ==
    \/ OrchLoop
    \/ OrchCommand
    \/ OrchTimeout
    \/ OrchPutNextUp
    \/ Advance
    \/ \E c \in Commands : ButtonPress(c)

TickSpec == TickInit /\ [][TickNext]_vars

(***************************************************************************)
(* Spec: the three workers and the two queues between them. The           *)
(* SpotifyWorker polls without pause (poll_interval 0, no command), so     *)
(* that a tick may fall anywhere between the steps of the other workers.   *)
(***************************************************************************)
Init ==
    /\ maxlen = 1
    /\ QueueInit
    /\ FunctionsIdle
    /\ PipelineInit([catalogue |-> PlayingSnapshots \cup {None}, remainings |-> {0},
                     buttons |-> {}, horizon |-> 0, pending |-> 0], 0)

Next ==
    \/ OrchLoop
    \/ OrchTimeout
    \/ OrchPutNextUp
    \/ Shutdown
    \/ ProcLoop
    \/ ProcTimeout
    \/ ProcTask
    \/ DispLoop
    \/ DispTimeout
    \/ DispTask

Spec == Init /\ [][Next]_vars

(***************************************************************************)
(* Properties of EvictingQueue (QSpec)                                     *)
(***************************************************************************)
Last(s) == s[Len(s)]
Range(s) == {s[i] : i \in 1..Len(s)}
\* position of item x in the sequence log
PosIn(log, x) == CHOOSE i \in 1..Len(log) : log[i] = x
\* position of item x in the order of appends
PutPos(x) == PosIn(putLog, x)

\* C1: put never blocks and always succeeds at every fill level: a thread
\* inside put can always complete it; below capacity the item is appended,
\* at capacity exactly the oldest item is discarded and the item appended,
\* so the item is the newest retained one when put returns.
C1_PutAlwaysSucceeds ==
    /\ \A p \in Producers : prodPc[p] = "locked" => ENABLED PutAppend(p)
    /\ \A p \in Producers :
          (prodPc[p] = "entering" /\ lock = "free") => ENABLED PutEnter(p)
    /\ putLog # <<>> =>
          /\ Len(lastPut.before) <= maxlen
          /\ Len(lastPut.before) < maxlen =>
                lastPut.after = Append(lastPut.before, lastPut.item)
          /\ Len(lastPut.before) = maxlen =>
                lastPut.after = Append(Tail(lastPut.before), lastPut.item)
          /\ Last(lastPut.after) = lastPut.item

\* a put on a queue at capacity has completed
C1_Witness ==
    /\ putLog # <<>>
    /\ Len(lastPut.before) = maxlen
    /\ maxlen >= 2

\* C2: after N+k puts and no get, the queue holds exactly the last N items
\* put, in the order they were put.
C2_LastNSurvive ==
    (gotLog = <<>> /\ Len(putLog) >= maxlen) =>
        deque = SubSeq(putLog, Len(putLog) - maxlen + 1, Len(putLog))

\* N+2 puts made, nothing taken
C2_Witness ==
    /\ gotLog = <<>>
    /\ maxlen >= 2
    /\ Len(putLog) = maxlen + 2

\* C3: get returns the oldest retained item; deliveries follow the order of
\* the puts, every delivered item was put, none is delivered twice.
C3_Fifo ==
    [][ /\ gotLog' # gotLog =>
              /\ deque # <<>>
              /\ gotLog' = Append(gotLog, Head(deque))
              /\ deque' = Tail(deque)
        /\ Range(gotLog') \subseteq Range(putLog')
        /\ \A i, j \in 1..Len(gotLog') :
              i < j => PosIn(putLog', gotLog'[i]) < PosIn(putLog', gotLog'[j])
      ]_vars

\* two items delivered, with an evicted item between them
C3_Witness ==
    /\ Len(gotLog) >= 2
    /\ \E x \in Range(putLog) :
          /\ x \notin Range(gotLog)
          /\ PutPos(gotLog[1]) < PutPos(x)
          /\ PutPos(x) < PutPos(gotLog[2])

\* C4: a get whose timeout elapses fails with Timeout and returns no item;
\* if the queue stayed empty all through the wait it is still empty; an
\* item is returned only when the queue held one.
C4_TimeoutOnEmpty ==
    [][ /\ (consPc = "timedout" /\ consPc' # "timedout") =>
              /\ consPc' = "idle"
              /\ consResult' = "Timeout"
              /\ gotLog' = gotLog
              /\ deque' = deque
        /\ (consPc = "timedout" /\ stayedEmpty) => deque = <<>>
        /\ (consPc = "waiting" /\ consPc' = "timedout") => consTimeout
        /\ (consPc = "waiting" /\ consTimeout /\ stayedEmpty) => ENABLED GetTimeout
        /\ consResult' = "Timeout" => consTimeout'
        /\ gotLog' # gotLog => (deque # <<>> /\ consResult' = "item")
      ]_vars

\* a get has failed with Timeout on a queue that stayed empty
C4_Witness ==
    /\ consPc = "idle"
    /\ consResult = "Timeout"
    /\ stayedEmpty
    /\ deque = <<>>

\* C5: with producers putting concurrently, the item appended last is in
\* the queue until the consumer takes it.
C5_LatestNotLost ==
    putLog # <<>> =>
        \/ (deque # <<>> /\ Last(deque) = Last(putLog))
        \/ (gotLog # <<>> /\ Last(gotLog) = Last(putLog))

\* both producers inside put at once, the queue full, the latest item kept
C5_Witness ==
    /\ Len(putLog) > maxlen
    /\ Len(deque) = maxlen
    /\ Last(deque) = Last(putLog)
    /\ prodPc["p1"] = "locked"
    /\ prodPc["p2"] = "entering"
    /\ prodItem["p2"] < prodItem["p1"]

(***************************************************************************)
(* Properties of the pipeline (Spec, TickSpec)                             *)
(***************************************************************************)
\* the change fingerprint of a PlaybackState
Fingerprint(ps) == <<ps.now_playing, ps.next_up, ps.context[1].uri>>

\* the step is _tick up to its return, its exception or its first put
TickStep == orchPc = "get" /\ orchPc' # "get"

\* the tick recorded in t queried the provider and got a candidate state
\* (a PlaybackState, or None for nothing playing)
CandidateBuilt(t) == t.queried /\ t.raised_in # "_get_playback_state"

\* C6: the request queue never holds more than 2 entries, the frame queue
\* never more than 1, and between two passes of the image pipeline its
\* render cache never more than 2.
C6_Capacities ==
    /\ Len(processing_queue) <= 2
    /\ Len(rendering_queue) <= 1
    /\ Len(images) <= 2

\* both queues and the render cache full at once
C6_Witness ==
    /\ Len(processing_queue) = 2
    /\ Len(rendering_queue) = 1
    /\ Len(images) = 2
    /\ procPc = "get"

\* C7: a tick whose candidate differs in fingerprint from the stored state
\* (or finds none stored) stores the candidate and puts exactly two tasks:
\* NOW_PLAYING of the candidate's playing track first, then NEXT_UP of its
\* next track, both with the candidate's context.
C7_ChangeEnqueuesPair ==
    [][ /\ ( /\ TickStep
             /\ CandidateBuilt(tick')
             /\ tick'.cand # None
             /\ (state = None \/ Fingerprint(tick'.cand[1]) # Fingerprint(state[1])) )
           => /\ orchPc' = "put_next_up"
              /\ state' = tick'.cand
              /\ processing_queue' =
                   Append(IF Len(processing_queue) = 2 THEN Tail(processing_queue)
                          ELSE processing_queue,
                          [state |-> "NOW_PLAYING",
                           track |-> tick'.cand[1].now_playing,
                           context |-> tick'.cand[1].context])
        /\ orchPc = "put_next_up"
           => \/ UNCHANGED <<orchPc, state, processing_queue, tick>>
              \/ /\ orchPc' = "loop"
                 /\ UNCHANGED <<state, tick>>
                 /\ state = tick.cand
                 /\ processing_queue' =
                      Append(IF Len(processing_queue) = 2 THEN Tail(processing_queue)
                             ELSE processing_queue,
                             [state |-> "NEXT_UP",
                              track |-> tick.cand[1].next_up,
                              context |-> tick.cand[1].context])
        /\ processing_queue' # processing_queue
           => \/ (TickStep /\ orchPc' = "put_next_up")
              \/ (orchPc = "put_next_up" /\ orchPc' = "loop")
      ]_vars

\* a second change is being enqueued: the NEXT_UP task of the change before
\* is still queued, the NOW_PLAYING task of this one behind it
C7_Witness ==
    /\ orchPc = "put_next_up"
    /\ Len(processing_queue) = 2
    /\ processing_queue[1].state = "NEXT_UP"
    /\ processing_queue[2] = [state |-> "NOW_PLAYING",
                              track |-> state[1].now_playing,
                              context |-> state[1].context]
    /\ processing_queue[1].track # state[1].next_up

\* C8: a tick whose candidate has the stored state's playing id, next id
\* and context URI puts no task and keeps the stored state, whatever the
\* two predicted end times are.
C8_SameFingerprintNoEnqueue ==
    [][ ( /\ TickStep
          /\ CandidateBuilt(tick')
          /\ tick'.cand # None
          /\ state # None
          /\ Fingerprint(tick'.cand[1]) = Fingerprint(state[1]) )
        => /\ orchPc' = "loop"
           /\ tick'.raised_in = ""
           /\ processing_queue' = processing_queue
           /\ state' = state
      ]_vars

\* a tick has found the stored fingerprint with another end time, and
\* nothing was ever enqueued
C8_Witness ==
    /\ orchPc = "loop"
    /\ CandidateBuilt(tick)
    /\ tick.cand # None
    /\ state # None
    /\ Fingerprint(tick.cand[1]) = Fingerprint(state[1])
    /\ tick.cand[1].now_playing_end_time # state[1].now_playing_end_time
    /\ processing_queue = <<>>

\* C9: a tick in which the provider reports nothing playing returns
\* without an exception, leaves the stored state absent and puts no task,
\* whatever state was stored before.
C9_NothingPlayingHandled ==
    [][ ( /\ TickStep
          /\ CandidateBuilt(tick')
          /\ tick'.cand = None )
        => /\ orchPc' = "loop"
           /\ tick'.raised_in = ""
           /\ state' = None
           /\ processing_queue' = processing_queue
      ]_vars

\* number of calls named name among the provider calls cs
CountCalls(cs, name) == Cardinality({i \in 1..Len(cs) : cs[i][1] = name})

\* C10: a tick for NEXT (PREVIOUS) calls next_track (previous_track) once,
\* as its first provider call, then queries the provider for the playback
\* state, and runs the change detection on the candidate the query returns.
C10_SkipForcesRefresh ==
    \A c \in {"NEXT", "PREVIOUS"} :
        tick.cmd = Some(c) =>
            /\ tick.calls # <<>>
            /\ tick.calls[1] = <<IF c = "NEXT" THEN "next_track" ELSE "previous_track">>
            /\ CountCalls(tick.calls, "next_track")
                 + CountCalls(tick.calls, "previous_track") = 1
            /\ tick.refresh
            /\ tick.queried
            /\ Len(tick.calls) >= 2
            /\ tick.calls[2] = <<"currently_playing">>
            /\ CandidateBuilt(tick) => tick.compared

\* a PREVIOUS tick has detected a change and is enqueuing it
C10_Witness ==
    /\ tick.cmd = Some("PREVIOUS")
    /\ tick.compared
    /\ orchPc = "put_next_up"

TickEnd ==
    \/ (TickStep /\ orchPc' # "put_next_up")
    \/ (orchPc = "put_next_up" /\ orchPc' # "put_next_up")

\* C12: after every tick that queried the provider and got a candidate,
\* _next_fetch_time is the smaller of the end time predicted for the playing
\* track and now + poll_interval, and it is now + poll_interval when the
\* candidate says that nothing is playing.
C12_NextWake ==
    [][ (TickEnd /\ CandidateBuilt(tick'))
        => next_fetch_time' =
             IF tick'.cand = None THEN now + poll_interval
             ELSE Min(state'[1].now_playing_end_time, now + poll_interval)
      ]_vars

\* the step is one pass of ImageProcessor.run with the task at the head of
\* the processing queue (no other step shortens that queue)
ProcStep == Len(processing_queue') = Len(processing_queue) - 1

\* the image is the one drawn for the track and the context of the task
RenderedFor(image, task) ==
    /\ image.track = task.track[1]
    /\ image.playing_from = task.context[1].type
    /\ image.playing_from_title = task.context[1].title

\* C13: a pass that handles a NOW_PLAYING task puts one RenderTask, with
\* the task's track id and the image drawn for the task's track and
\* context; a pass that handles a NEXT_UP task leaves the rendering queue
\* alone and has the image in the cache; nothing else puts a RenderTask.
C13_EmitIffNowPlaying ==
    [][ /\ (ProcStep /\ procPc' # "crashed")
           => LET task == Head(processing_queue)
              IN  IF task.state = "NOW_PLAYING"
                  THEN /\ Len(rendering_queue') = 1
                       /\ rendering_queue'[1].track_id = task.track[1]
                       /\ RenderedFor(rendering_queue'[1].image, task)
                  ELSE /\ rendering_queue' = rendering_queue
                       /\ <<task.track[1], task.context[1].uri>> \in Keys(images')
        /\ (rendering_queue' # rendering_queue /\ rendering_queue' # <<>>)
           => (ProcStep /\ Head(processing_queue).state = "NOW_PLAYING")
      ]_vars

\* a NOW_PLAYING task has produced the RenderTask now queued, a NEXT_UP
\* task for another track the image now cached, and the display has taken
\* nothing yet
C13_Witness ==
    /\ Len(rendering_queue) = 1
    /\ Len(images) = 1
    /\ images[1].key[1] # rendering_queue[1].track_id
    /\ current_track_id = None
    /\ dispPc = "get"

\* C14: after a pass that handled a NOW_PLAYING task for the key
\* (track id, context URI) the images hold no entry under that key, and no
\* key is ever held twice; a later NOW_PLAYING task for the key therefore
\* finds it absent and draws the image again.
C14_EmittedImageRemoved ==
    [][ /\ (ProcStep /\ procPc' # "crashed" /\ Head(processing_queue).state = "NOW_PLAYING")
           => LET task == Head(processing_queue)
              IN  <<task.track[1], task.context[1].uri>> \notin Keys(images')
        /\ Cardinality(Keys(images')) = Len(images')
      ]_vars

\* the display shows a track, a second NOW_PLAYING task for the same track
\* has been handled since, and its RenderTask is queued while the images
\* hold no entry of that track
C14_Witness ==
    /\ Len(rendering_queue) = 1
    /\ current_track_id = Some(rendering_queue[1].track_id)
    /\ \A i \in 1..Len(images) : images[i].key[1] # rendering_queue[1].track_id
    /\ procPc = "get"

\* the step is one pass of DisplayWorker.run with the task at the head of
\* the rendering queue (no other step shortens that queue)
DispStep == Len(rendering_queue') = Len(rendering_queue) - 1

\* C15: a pass of the display worker calls set_image and then show, and
\* remembers the task's track id, exactly when that id differs from the
\* remembered one; otherwise it makes no display call and remembers what it
\* did. No other step calls the display or changes the remembered id, so
\* two shows in a row are never for one track id.
C15_ShowOnlyOnNewTrack ==
    [][ /\ DispStep
           => LET task == Head(rendering_queue)
              IN  IF Some(task.track_id) # current_track_id
                  THEN /\ dtick' = <<"set_image", "show">>
                       /\ current_track_id' = Some(task.track_id)
                  ELSE /\ dtick' = <<>>
                       /\ current_track_id' = current_track_id
        /\ ~DispStep
           => /\ dtick' = dtick \/ dtick' = <<>>
              /\ current_track_id' = current_track_id
      ]_vars

\* a track has been shown, and a second RenderTask for the same track is
\* at the head of the rendering queue
C15_Witness ==
    /\ current_track_id # None
    /\ Len(rendering_queue) = 1
    /\ Some(rendering_queue[1].track_id) = current_track_id
    /\ dispPc = "get"

\* C16: with a track A playing from the start, the processing queue is
\* given NOW_PLAYING(A) and then NEXT_UP(the track then next); when the
\* tick at the scheduled wake finds a track B with another context,
\* NOW_PLAYING(B) comes after them. (Nothing takes from the queue here,
\* so it holds the last two tasks put.)
C16_RequestOrder ==
    [][ ( /\ TickStep
          /\ tick'.cmd = None
          /\ CandidateBuilt(tick')
          /\ tick'.cand # None
          /\ state # None
          /\ tick'.cand[1].now_playing # state[1].now_playing
          /\ tick'.cand[1].context[1].uri # state[1].context[1].uri )
        => /\ processing_queue =
                << [state |-> "NOW_PLAYING", track |-> state[1].now_playing,
                    context |-> state[1].context],
                   [state |-> "NEXT_UP", track |-> state[1].next_up,
                    context |-> state[1].context] >>
           /\ processing_queue' =
                << [state |-> "NEXT_UP", track |-> state[1].next_up,
                    context |-> state[1].context],
                   [state |-> "NOW_PLAYING", track |-> tick'.cand[1].now_playing,
                    context |-> tick'.cand[1].context] >>
      ]_vars

(***************************************************************************)
(* E2ESpec: the three workers in the run where track A plays from the      *)
(* start and the provider then moves on to track B in another context.     *)
(* The provider moves on once, after a tick has completed and the other    *)
(* workers wait on empty queues, so that no task of A could have been      *)
(* dropped by a queue.                                                     *)
(***************************************************************************)
SnapshotA == Some(Snapshot("A", <<"B">>, Some(PlaylistContext)))
SnapshotB == Some(Snapshot("B", <<"A">>, Some(AlbumContext)))

\* a tick has completed, both queues are empty and no worker has failed:
\* nothing is under way (a pass of a worker is a single step)
Quiescent ==
    /\ orchPc = "loop"
    /\ tick.compared
    /\ processing_queue = <<>>
    /\ rendering_queue = <<>>
    /\ procPc \in {"loop", "get"}
    /\ dispPc \in {"loop", "get"}

ProviderChange ==
    /\ env.catalogue = {SnapshotA}
    /\ Quiescent
    /\ env' = [env EXCEPT !.catalogue = {SnapshotB}]
    /\ UNCHANGED <<poll_interval, now, shutdown_event, command_queue>>
    /\ UNCHANGED <<fvars, qvars, processing_queue, rendering_queue, orchvars, procvars, dispvars>>

E2EInit ==
    /\ maxlen = 1
    /\ QueueInit
    /\ FunctionsIdle
    /\ PipelineInit([catalogue |-> {SnapshotA}, remainings |-> {0},
                     buttons |-> {}, horizon |-> 0, pending |-> 0], 0)

E2ENext ==
    \/ OrchLoop
    \/ OrchTimeout
    \/ OrchPutNextUp
    \/ ProcLoop
    \/ ProcTimeout
    \/ ProcTask
    \/ DispLoop
    \/ DispTimeout
    \/ DispTask
    \/ ProviderChange
    \/ Shutdown

E2ESpec == E2EInit /\ [][E2ENext]_vars

\* E2ESpec with every worker thread scheduled again and again
OrchNext == OrchLoop \/ OrchTimeout \/ OrchPutNextUp
ProcNext == ProcLoop \/ ProcTimeout \/ ProcTask
DispNext == DispLoop \/ DispTimeout \/ DispTask

E2EFairSpec ==
    /\ E2ESpec
    /\ WF_vars(OrchNext)
    /\ WF_vars(ProcNext)
    /\ WF_vars(DispNext)

\* C17: in the run where A plays and then B, show is called once for A and
\* then once for B, and one RenderTask for B is put: the remembered id goes
\* from none to A and from A to B and changes in no other way, and when a
\* RenderTask for B is put none was put before (none is queued, none was
\* shown).
C17_ShowOncePerTrack ==
    [][ /\ current_track_id' # current_track_id
           => \/ (current_track_id = None /\ current_track_id' = Some("A"))
              \/ (current_track_id = Some("A") /\ current_track_id' = Some("B"))
        /\ ( /\ ProcStep
             /\ procPc' # "crashed"
             /\ Head(processing_queue).state = "NOW_PLAYING"
             /\ Head(processing_queue).track = Some("B") )
           => /\ current_track_id # Some("B")
              /\ \A i \in 1..Len(rendering_queue) : rendering_queue[i].track_id # "B"
      ]_vars

\* no worker thread has ended on an exception
AllRunning == orchPc # "crashed" /\ procPc # "crashed" /\ dispPc # "crashed"

\* C18: if no shutdown is signalled and no worker ends, then from some
\* time on (the provider moves on at most once) the track the display
\* last showed is the playing track of the stored playback state.
C18_EventualFreshness ==
    ([](~shutdown_event /\ AllRunning))
        => <>[](state # None /\ current_track_id = state[1].now_playing)

\* C19: no worker thread ever ends on an exception raised in a pass of its
\* loop; a worker that has left its loop has seen the shutdown event.
C19_LoopsSurviveFailures ==
    \A pc \in {orchPc, procPc, dispPc} :
        /\ pc # "crashed"
        /\ pc = "stopped" => shutdown_event

\* the worker threads that have left their loops
Left(pc) == pc \in {"stopped", "crashed"}

\* C20: once the shutdown event is set every worker leaves its loop; a
\* worker returns from run only at a loop test that finds the event set,
\* and a tick that has put its first task puts the second before that
\* test; every wait on a queue ends by its timeout.
C20_CooperativeShutdown ==
    /\ shutdown_event ~> (Left(orchPc) /\ Left(procPc) /\ Left(dispPc))
    /\ [][ /\ (orchPc' = "stopped" /\ orchPc # "stopped")
              => (orchPc = "loop" /\ shutdown_event)
           /\ (procPc' = "stopped" /\ procPc # "stopped") => shutdown_event
           /\ (dispPc' = "stopped" /\ dispPc # "stopped") => shutdown_event
           /\ (orchPc = "put_next_up" /\ orchPc' # "put_next_up")
              => /\ orchPc' = "loop"
                 /\ processing_queue'[Len(processing_queue')].state = "NEXT_UP"
         ]_vars

\* all three workers have returned from run, the orchestrator after a tick
\* that put both of its tasks, which nobody has taken
C20_Witness ==
    /\ shutdown_event
    /\ orchPc = "stopped"
    /\ procPc = "stopped"
    /\ dispPc = "stopped"
    /\ Len(processing_queue) = 2
    /\ processing_queue[2].state = "NEXT_UP"

(***************************************************************************)
(* CmdSpec: the SpotifyWorker thread and the buttons, with up to           *)
(* MaxPending commands waiting and a wait that is always due               *)
(***************************************************************************)
CmdInit ==
    /\ maxlen = 1
    /\ QueueInit
    /\ FunctionsIdle
    /\ PipelineInit([catalogue |-> {SnapshotA, SnapshotB}, remainings |-> {0},
                     buttons |-> Commands, horizon |-> 0,
                     pending |-> MaxPending], 0)

CmdNext ==
    \/ OrchLoop
    \/ OrchCommand
    \/ OrchTimeout
    \/ OrchPutNextUp
    \/ \E c \in Commands : ButtonPress(c)

CmdSpec == CmdInit /\ [][CmdNext]_vars

\* C21: every step that takes from the command queue is the start of a
\* tick that takes the oldest waiting command alone and handles it; a tick
\* started while a command waits is such a tick; any other change of the
\* command queue adds one command at its end, also in the middle of a
\* tick. So each command is handled once, in the order of arrival.
C21_CommandQueueLossless ==
    [][ /\ TickStep
           => IF command_queue # <<>>
              THEN /\ tick'.cmd = Some(Head(command_queue))
                   /\ command_queue' = Tail(command_queue)
              ELSE /\ tick'.cmd = None
                   /\ command_queue' = command_queue
        /\ ~TickStep
           => \/ command_queue' = command_queue
              \/ \E c \in Commands : command_queue' = Append(command_queue, c)
      ]_vars

\* NEXT is being handled, and two more commands wait in the middle of its
\* tick
C21_Witness ==
    /\ orchPc = "put_next_up"
    /\ tick.cmd = Some("NEXT")
    /\ command_queue = <<"PREVIOUS", "SAVE">>

(***************************************************************************)
(* TruncSpec: one call of truncate_text on any text of at most MaxTextLen  *)
(* characters and any width up to MaxWidth                                 *)
(***************************************************************************)
Texts == UNION {[1..n -> Alphabet] : n \in 0..MaxTextLen}

\* the workers just constructed with nothing playing; they take no step in the
\* specifications of the pure functions
WorkersAtRest ==
    /\ maxlen = 1
    /\ QueueInit
    /\ PipelineInit([catalogue |-> {None}, remainings |-> {0}, buttons |-> {},
                     horizon |-> 0, pending |-> 0], 0)

TruncInit ==
    /\ WorkersAtRest
    /\ colour = ColourIdle
    /\ themes = ThemesIdle
    /\ cmp = CmpIdle
    /\ ctxcall = CtxIdle
    /\ \E text \in Texts, max_width \in 0..MaxWidth : trunc = TruncEntry(text, max_width)

TruncNext == TruncCall \/ TruncLoop

TruncSpec == TruncInit /\ [][TruncNext]_vars

\* C22: when truncate_text returns, a text that fits within max_width is
\* returned unchanged; for any other the result is a prefix of the text
\* followed by "..." and its measured width is at most max_width.
C22_TruncationPostcondition ==
    trunc.pc = "done" =>
        IF TextLength(trunc.text) <= trunc.max_width
        THEN trunc.result = Some(trunc.text)
        ELSE /\ \E n \in 0..Len(trunc.text) :
                  trunc.result = Some(SubSeq(trunc.text, 1, n) \o Ellipsis)
             /\ TextLength(trunc.result[1]) <= trunc.max_width

\* a text too wide was cut by the loop below its estimate, some characters kept
C22_Witness ==
    /\ trunc.pc = "done"
    /\ TextLength(trunc.text) > trunc.max_width
    /\ trunc.truncated_text # <<>>
    /\ trunc.result = Some(trunc.truncated_text \o Ellipsis)
    /\ \E k \in CharactersToKeep(trunc.text, trunc.max_width) :
         Len(trunc.truncated_text) < Len(SliceTo(trunc.text, k))

(***************************************************************************)
(* ThemeSpec: up to MaxGets calls of ThemeColours.get on album covers      *)
(***************************************************************************)
ThemeImages == {<<Grey>>, <<NearBlack>>, <<Red>>, <<Red, Red>>}

ThemeInit ==
    /\ WorkersAtRest
    /\ FunctionsIdle

ThemeNext == \E image \in ThemeImages : ThemeGet(image)

ThemeSpec == ThemeInit /\ [][ThemeNext]_vars

ColourInit ==
    /\ WorkersAtRest
    /\ trunc = TruncIdle
    /\ themes = ThemesIdle
    /\ cmp = CmpIdle
    /\ ctxcall = CtxIdle
    /\ \E image \in Images : colour = ColourEntry(image)

ColourNext ==
    \/ ExtractCall
    \/ ExtractCluster
    \/ ExtractChoose
    \/ EnsureStep
    \/ ExtractReturn
    \/ ExtractAgain

ColourSpec == ColourInit /\ [][ColourNext]_vars

\* C24: the colour get_theme_colour returns, as an 8-bit RGB triple, has a
\* contrast ratio against white of at least 3.0.
C24_ContrastAtLeastThree ==
    \A r \in 1..Len(colour.results) :
        ContrastRatioWithWhite(Rgb01(colour.results[r])) >= MinContrast

RequestContext(title) ==
    Some([uri |-> PlaylistContext.uri, type |-> "playlist", title |-> title])

\* Tasks for the tracks A, B, C of one playlist. The playlist has been
\* renamed between the NEXT_UP and the NOW_PLAYING task of track A, so that
\* an image drawn for the one differs from an image drawn for the other.
RequestTasks ==
    {ImageTask("NEXT_UP", Some("A"), RequestContext(<<"old name">>)),
     ImageTask("NOW_PLAYING", Some("A"), RequestContext(<<"new name">>))}
    \cup {ImageTask(track_state, Some(track), RequestContext(<<"new name">>)) :
            track_state \in {"NOW_PLAYING", "NEXT_UP"}, track \in {"B", "C"}}

\* processing_queue.put(task), by whoever feeds the image processor
Request(task) ==
    /\ processing_queue' = QueuePut(processing_queue, ProcessingQueueMaxlen, task)
    /\ UNCHANGED <<fvars, qvars, envvars, rendering_queue, orchvars, procvars, dispvars>>

CacheInit ==
    /\ WorkersAtRest
    /\ FunctionsIdle

CacheNext ==
    \/ \E task \in RequestTasks : Request(task)
    \/ ProcLoop
    \/ ProcTimeout
    \/ ProcTask

CacheSpec == CacheInit /\ [][CacheNext]_vars

\* the key of the task the pass handles
HeadKey == GetCacheKey(Head(processing_queue).track, Head(processing_queue).context)

\* C26: when a pass inserts a key into a full cache, the entry discarded is
\* the least recently requested one (a request that found its key cached
\* counting as a request of it), and the inserted entry is not discarded: it
\* is held after a NEXT_UP task and emitted by a NOW_PLAYING task.
C26_EvictsLeastRecentlyUsed ==
    [][ (/\ ProcStep
         /\ procPc' # "crashed"
         /\ HeadKey \notin Keys(images)
         /\ Len(images) = ImagesLimit)
        => /\ Keys(images) \ Keys(images') = {Head(uses)}
           /\ IF Head(processing_queue).state = "NEXT_UP"
              THEN HeadKey \in Keys(images')
              ELSE /\ rendering_queue' # <<>>
                   /\ rendering_queue'[1].track_id = HeadKey[1]
      ]_vars

\* C27: a pass whose task finds its key in the cache does not draw: it
\* cannot fail on the fetch of the album art, a NEXT_UP task leaves the
\* cache as it is, and a NOW_PLAYING task emits the image that was held
\* (drawn for an earlier task of the key) and removes it.
C27_RenderOnlyWhenAbsent ==
    [][ (ProcStep /\ HeadKey \in Keys(images))
        => LET held == ImagesPop(images, HeadKey)
           IN  /\ procPc' # "crashed"
               /\ IF Head(processing_queue).state = "NEXT_UP"
                  THEN images' = images /\ rendering_queue' = rendering_queue
                  ELSE /\ rendering_queue' = <<RenderTask(HeadKey[1], held.image)>>
                       /\ images' = held.rest
      ]_vars

\* the image queued for the display is the one drawn for the NEXT_UP task of
\* track A, before the playlist was renamed: the NOW_PLAYING task that
\* emitted it did not draw
C27_Witness ==
    /\ rendering_queue =
         <<RenderTask("A", GenerateImage(Some("A"), RequestContext(<<"old name">>)))>>
    /\ \A i \in 1..Len(images) : images[i].key[1] # "A"
    /\ procPc = "get"

\* C28: whatever tasks have been handled and whatever is held, the pass that
\* handles the next task finds the key at the pop: it raises no KeyError,
\* and a NOW_PLAYING task whose image could be drawn is emitted.
C28_PopFindsKey ==
    processing_queue # <<>> =>
        \A fetched \in BOOLEAN :
            LET out == ProcOutcome(images, Head(processing_queue), fetched)
            IN  /\ out.exc # "KeyError"
                /\ (Head(processing_queue).state = "NOW_PLAYING" /\ out.exc = "")
                   => /\ out.put # <<>>
                      /\ out.put[1].track_id = HeadKey[1]

\* a NOW_PLAYING task is about to be handled with a full cache that does not
\* hold its key, neither entry of which was emitted: NEXT_UP tasks without
\* their NOW_PLAYING, and a NOW_PLAYING without its NEXT_UP
C28_Witness ==
    /\ procPc = "get"
    /\ processing_queue # <<>>
    /\ Head(processing_queue).state = "NOW_PLAYING"
    /\ Len(images) = ImagesLimit
    /\ HeadKey \notin Keys(images)
    /\ rendering_queue = <<>>

\* the NOW_PLAYING task of the state the SpotifyWorker holds
LatestCurrent == NowPlayingTask(state[1])

\* C29: the tick that finds a changed state puts its NOW_PLAYING task at the
\* end of the processing queue, and from then on, as long as no later tick
\* finds another change, that task leaves the queue only by being taken by
\* the ImageProcessor: no put of the SpotifyWorker, the second put of the
\* same tick in particular, discards it.
C29_CurrentRetainedOrTaken ==
    [][ /\ (TickStep /\ orchPc' = "put_next_up")
           => /\ processing_queue' # <<>>
              /\ Last(processing_queue') = NowPlayingTask(state'[1])
        /\ (/\ state # None
            /\ state' = state
            /\ LatestCurrent \in Range(processing_queue)
            /\ LatestCurrent \notin Range(processing_queue'))
           => (ProcStep /\ Head(processing_queue) = LatestCurrent)
      ]_vars

\* a tick that found a change has completed with both of its tasks in the
\* queue, its second put having discarded a task of an older tick, while
\* the display shows a track of an earlier state
C29_Witness ==
    /\ orchPc = "loop"
    /\ tick.compared
    /\ state # None
    /\ tick.cand = state
    /\ processing_queue = <<NowPlayingTask(state[1]), NextUpTask(state[1])>>
    /\ current_track_id # None
    /\ current_track_id # state[1].now_playing

(***************************************************************************)
(* EqSpec: a == b for any two PlaybackStates, components absent or not     *)
(***************************************************************************)
\* the PlaybackStates the dataclass admits: every component may be None
PlaybackStates ==
    [now_playing : {None, Some("A"), Some("B")},
     next_up : {None, Some("A"), Some("B")},
     context : {None, RequestContext(<<"new name">>),
                Some([uri |-> AlbumContext.uri, type |-> "album",
                      title |-> <<"album of", "A">>])},
     now_playing_end_time : 0..MaxTime]

EqInit ==
    /\ WorkersAtRest
    /\ trunc = TruncIdle
    /\ colour = ColourIdle
    /\ themes = ThemesIdle
    /\ ctxcall = CtxIdle
    /\ \E a \in PlaybackStates, b \in PlaybackStates : cmp = CmpEntry(a, b)

EqNext == Compare

EqSpec == EqInit /\ [][EqNext]_vars

\* the change fingerprint, an absent component being None
FingerprintOrNone(ps) ==
    <<ps.now_playing, ps.next_up,
      IF ps.context = None THEN None ELSE Some(ps.context[1].uri)>>

\* C30: two PlaybackStates compare equal exactly when their now-playing id,
\* next-up id and context URI agree pairwise, a component absent in both
\* agreeing; in particular every state equals itself.
C30_FingerprintEquivalence ==
    cmp.pc = "done" =>
        cmp.result = (FingerprintOrNone(cmp.a[1]) = FingerprintOrNone(cmp.b[1]))

(***************************************************************************)
(* ContextSpec: one call of _get_playback_context, for any stored state    *)
(* and any currently_playing response                                      *)
(***************************************************************************)
ContextUris ==
    {<<"spotify", "playlist", "p1">>, <<"spotify", "album", "a1">>,
     <<"spotify", "playlist", "p1", "recommended">>}

\* the kinds the provider reports; "show" stands for any other kind
ContextTypes == {"playlist", "artist", "album", "show"}

\* the currently_playing responses: a track, with or without a context
Responses ==
    {Snapshot(item, <<"B">>, c) :
        item \in {"A", "B"},
        c \in {None} \cup {Some([uri |-> u, type |-> t]) :
                              u \in ContextUris, t \in ContextTypes}}

\* the contexts a stored state can carry: those resolved by an earlier call
StoredContexts ==
    {GetPlaybackContext(None, cp).value : cp \in {r \in Responses : r.context # None}}

\* self.state: None, or a PlaybackState stored by an earlier tick
StoredStates ==
    {None} \cup {Some([now_playing |-> Some("A"), next_up |-> Some("B"), context |-> c,
                       now_playing_end_time |-> 0]) : c \in StoredContexts}

ContextInit ==
    /\ WorkersAtRest
    /\ trunc = TruncIdle
    /\ colour = ColourIdle
    /\ themes = ThemesIdle
    /\ cmp = CmpIdle
    /\ \E st \in StoredStates, cp \in Responses : ctxcall = CtxEntry(st, cp)

ContextNext == ContextCall

ContextSpec == ContextInit /\ [][ContextNext]_vars

\* the call recorded in c made a playlist-name lookup
LookupMade(c) == \E i \in 1..Len(c.out[1].calls) : c.out[1].calls[i][1] = "playlist"

\* the response of the call recorded in c carries a context whose URI is
\* the stored one
SameUri(c) ==
    /\ c.cp[1].context # None
    /\ c.st # None
    /\ c.cp[1].context[1].uri = c.st[1].context[1].uri

\* C31: when the provider's context URI equals the stored state's context
\* URI, the call returns the stored context object unchanged and makes no
\* playlist-name lookup; a lookup is made only when the URI differs from the
\* stored one (or no state is stored) and the reported kind is playlist.
C31_ContextReuse ==
    ctxcall.pc = "done" =>
        /\ SameUri(ctxcall) =>
              /\ ctxcall.out[1].exc = ""
              /\ ctxcall.out[1].value = ctxcall.st[1].context
              /\ ~LookupMade(ctxcall)
        /\ LookupMade(ctxcall) =>
              /\ ~SameUri(ctxcall)
              /\ ctxcall.cp[1].context # None
              /\ ctxcall.cp[1].context[1].type = "playlist"

\* the stored album context, titled after track A, was returned for track B
\* reported as a playlist under the same URI
C31_Witness ==
    /\ ctxcall.pc = "done"
    /\ SameUri(ctxcall)
    /\ ctxcall.cp[1].item = "B"
    /\ ctxcall.cp[1].context[1].type = "playlist"
    /\ ctxcall.st[1].context[1].title = <<"album of", "A">>
    /\ ctxcall.out[1].value = ctxcall.st[1].context

\* C32: for a context whose URI is not the stored one (or with no state
\* stored), a URI ending in "recommended" gives kind recommended and title
\* "" whatever kind is reported; otherwise kind playlist gives the playlist
\* name looked up from the provider, kind artist the first artist name of
\* the track, kind album the album name of the track, both without lookup;
\* any other kind gives title "".
C32_ContextResolution ==
    (ctxcall.pc = "done" /\ ctxcall.cp[1].context # None /\ ~SameUri(ctxcall)) =>
        LET reported == ctxcall.cp[1].context[1]
            item == ctxcall.cp[1].item
            out == ctxcall.out[1]
            is(type, title) ==
                /\ out.exc = ""
                /\ out.value = Some([uri |-> reported.uri, type |-> type, title |-> title])
        IN  IF reported.uri[Len(reported.uri)] = "recommended"
            THEN is("recommended", <<>>) /\ out.calls = <<>>
            ELSE CASE reported.type = "playlist" ->
                        /\ is("playlist", <<"name of", reported.uri>>)
                        /\ out.calls = << <<"playlist", reported.uri>> >>
                   [] reported.type = "artist" ->
                        is("artist", <<"artist of", item>>) /\ out.calls = <<>>
                   [] reported.type = "album" ->
                        is("album", <<"album of", item>>) /\ out.calls = <<>>
                   [] OTHER -> is(reported.type, <<>>) /\ out.calls = <<>>

\* a context reported as an album under a URI ending in "recommended",
\* another URI stored, was resolved to kind recommended
C32_Witness ==
    /\ ctxcall.pc = "done"
    /\ ctxcall.st # None
    /\ ctxcall.cp[1].context # None
    /\ ~SameUri(ctxcall)
    /\ ctxcall.cp[1].context[1].type = "album"
    /\ ctxcall.out[1].value # None
    /\ ctxcall.out[1].value[1].type = "recommended"
    /\ ctxcall.out[1].value[1].title = <<>>

(***************************************************************************)
(* Failures of a tick (TickSpec)                                           *)
(***************************************************************************)
\* C33: no tick raises while it handles its command or queries the
\* provider: SAVE with no state stored, a playing track reported without a
\* context, and a playing track with an empty upcoming queue are handled
\* without an exception. (The failure of _enqueue_processing_updates on
\* nothing playing is the subject of C9.)
C33_NoTickFails ==
    tick.raised_in \notin {"_handle_command", "_get_playback_state"}

\* C34: after a tick that queried the provider and found a track whose
\* remaining play time is greater than zero, _next_fetch_time is strictly
\* later than the time of the tick.
C34_NextWakeInFuture ==
    [][ ( /\ TickEnd
          /\ CandidateBuilt(tick')
          /\ tick'.cand # None
          /\ tick'.cand[1].now_playing_end_time > now )
        => next_fetch_time' > now
      ]_vars

(***************************************************************************)
(* Timeout of EvictingQueue.get against a concurrent put (QSpec)           *)
(***************************************************************************)
\* C35: get raises Timeout only when the queue is empty at the moment it
\* gives up: whatever the interleaving of a producer's put with the expiry
\* of the consumer's timed wait, get never raises Timeout while an item is
\* retained in the queue.
C35_TimeoutOnlyWhenEmpty ==
    [][ (consPc = "timedout" /\ consResult' = "Timeout") => deque = <<>> ]_vars

(***************************************************************************)
(* The contrast step and the choice of the centre (ColourSpec)             *)
(***************************************************************************)
\* the colour has contrast >= 3.0 against white
Complies(lab) == ContrastRatioWithWhite(LabToRgb(lab)) >= MinContrast

\* C36: the contrast step starts from the chosen centre and changes only
\* L: a pass whose colour complies returns it as it is (so a centre that
\* complies already is returned unchanged); any other pass lowers L by 1.0,
\* never below 0, with a* and b* as they were, and the loop goes on unless
\* the floor is reached; fewer than 200 passes are made.
C36_ContrastDescent ==
    [][ /\ (colour.pc = "choose" /\ colour'.pc = "ensure") =>
              /\ colour'.i = 0
              /\ \E j \in 1..Len(colour'.centres) :
                    colour'.best_lab = colour'.centres[j].centre
        /\ (colour.pc = "ensure" /\ colour' # colour) =>
              /\ colour.i < EnsureIterations
              /\ colour.best_lab[1] >= 0
              /\ colour'.best_lab[2] = colour.best_lab[2]
              /\ colour'.best_lab[3] = colour.best_lab[3]
              /\ IF Complies(colour.best_lab)
                 THEN /\ colour'.pc = "return"
                      /\ colour'.best_lab = colour.best_lab
                 ELSE /\ colour'.best_lab[1] = Max(0, colour.best_lab[1] - Scale)
                      /\ IF colour'.best_lab[1] = 0
                         THEN colour'.pc = "return"
                         ELSE colour'.pc = "ensure" /\ colour'.i = colour.i + 1
        /\ (colour.pc = "return" /\ colour' # colour) =>
              colour'.results = Append(colour.results, Rgb255(LabToRgb(colour.best_lab)))
      ]_vars

\* the centre of a white image was darkened in several passes down to the
\* first L that complies
C36_Witness ==
    /\ colour.pc = "return"
    /\ colour.image = <<White>>
    /\ colour.i > 1
    /\ colour.best_lab[1] = colour.centres[1].centre[1] - colour.i * Scale
    /\ Complies(colour.best_lab)
    /\ ~Complies(<<colour.best_lab[1] + Scale, colour.best_lab[2], colour.best_lab[3]>>)

\* a solid near-black image: its centre complies and is returned unchanged
C36_NearBlackUnchanged ==
    /\ colour.pc = "return"
    /\ colour.image = <<NearBlack>>
    /\ colour.i = 0
    /\ colour.best_lab = colour.centres[1].centre

\* C37: when the largest chroma of the cluster centres is at least 8 the
\* chosen centre has the highest score; when it is below 8 the chosen centre
\* is the most prevalent of the centres with L > 15 or, if no centre has
\* L > 15, the centre with the highest L.
C37_CentreSelection ==
    (colour.pc = "ensure" /\ colour.i = 0) =>
        LET centres == colour.centres
            n == Len(centres)
            total == LET RECURSIVE Sum(_)
                         Sum(j) == IF j = 0 THEN 0 ELSE centres[j].count + Sum(j - 1)
                     IN  Sum(n)
            score(j) == ScoreColour(centres[j].centre, centres[j].count, total)
            visible(j) == centres[j].centre[1] > 15 * Scale
        IN  \E j \in 1..n :
              /\ colour.best_lab = centres[j].centre
              /\ IF \E m \in 1..n : Chroma(centres[m].centre) >= 800
                 THEN \A m \in 1..n : score(m) <= score(j)
                 ELSE IF \E m \in 1..n : visible(m)
                 THEN /\ visible(j)
                      /\ \A m \in 1..n : visible(m) => centres[m].count <= centres[j].count
                 ELSE \A m \in 1..n : centres[m].centre[1] <= centres[j].centre[1]

\* a colourless image of two whites and a grey: the grey has the higher
\* score, the white, more prevalent, is chosen
C37_Witness ==
    /\ colour.pc = "ensure"
    /\ colour.i = 0
    /\ colour.image = <<White, White, Grey>>
    /\ colour.best_lab = colour.centres[1].centre
    /\ ScoreColour(colour.centres[2].centre, 1, 3) > ScoreColour(colour.centres[1].centre, 2, 3)

\* a dark image, no centre with L > 15: the lighter centre is chosen, not
\* the one with the higher score
C37_DarkWitness ==
    /\ colour.pc = "ensure"
    /\ colour.i = 0
    /\ colour.image = <<NearBlack, NearBlack, Dark>>
    /\ colour.best_lab = colour.centres[2].centre
    /\ ScoreColour(colour.centres[1].centre, 2, 3) > ScoreColour(colour.centres[2].centre, 1, 3)

(***************************************************************************)
(* Termination of truncate_text: TruncSpec with the call running on        *)
(***************************************************************************)
TruncFairSpec == TruncSpec /\ WF_vars(TruncNext)

\* "..." alone fits within max_width
EllipsisFits == TextLength(Ellipsis) <= trunc.max_width

\* C38: for every text and every max_width within which "..." fits,
\* truncate_text returns: each iteration of its loop drops one character,
\* the loop ends at the latest at the empty prefix, also when the estimate
\* of the characters to keep is zero or negative.
C38_TruncationTerminates ==
    /\ [][ EllipsisFits =>
              /\ (trunc.pc = "loop" /\ trunc'.pc = "loop") =>
                    Len(trunc'.truncated_text) = Len(trunc.truncated_text) - 1
              /\ (trunc.pc = "loop" /\ trunc.truncated_text = <<>>) => trunc'.pc = "done"
          ]_vars
    /\ (EllipsisFits ~> trunc.pc = "done")

\* a text cut from a negative estimate and then by the loop has been returned
C38_Witness ==
    /\ trunc.pc = "done"
    /\ EllipsisFits
    /\ TextLength(trunc.text) > trunc.max_width
    /\ \A k \in CharactersToKeep(trunc.text, trunc.max_width) :
         /\ k < 0
         /\ Len(trunc.truncated_text) < Len(SliceTo(trunc.text, k))
    /\ trunc.result = Some(trunc.truncated_text \o Ellipsis)

====
